---- MODULE Spec2Model ----
(***************************************************************************)
(* A model of the orbs test-execution orchestrator (src/orbs/runner.py):   *)
(* Runner.run_suite, Runner.run_case, Runner._invoke_hook and              *)
(* Runner.run_suite_collection with its ThreadPoolExecutor, together with  *)
(* the thread context store and the hook registry they use.                *)
(***************************************************************************)
EXTENDS Integers, Sequences, FiniteSets, Bags, TLC

(***************************************************************************)
(* Bounds of the model.                                                    *)
(***************************************************************************)
\* longest test_cases list of a suite file
MaxCases == 2
\* longest testsuites list of a collection file
MaxEntries == 3
\* largest max_concurrent_instances of a collection file
MaxInst == 2
\* largest retry_count create_driver is called with
MaxRetry == 2
\* most entries the screenshot lists hold, all threads together
MaxShots == 3
\* most calls of the Mobile keyword layer, all threads together
MaxCalls == 3

(***************************************************************************)
(* Values.                                                                 *)
(***************************************************************************)
\* Python's None
None == "None"
\* a thread-context key the thread never set
Unset == "<unset>"
\* the thread that calls run_suite_collection
Main == 0
\* the threads a pool can ever own: one per submitted entry at most
Workers == 1..MaxEntries
Threads == {Main} \cup Workers

\* orbs/_constant.py PLATFORM_LIST (the module is not part of src/)
PLATFORM_LIST == [mobile |-> {"android", "ios"}, web |-> {"chrome", "firefox"}]

\* the eight lifecycle stages, in the order run_suite names them
Stages == <<"before_test_suite", "setup", "setup_test_case", "before_test_case",
            "after_test_case", "teardown_test_case", "teardown", "after_test_suite">>
StageSet == {Stages[i] : i \in DOMAIN Stages}

(***************************************************************************)
(* Inputs: suite files, case modules, registered hooks.                    *)
(***************************************************************************)
\* suite files of the project
SuiteIds == {"A", "B"}

\* an entry of test_cases that is not a string (yaml allows any scalar)
BadItem == <<"#">>
\* case paths as written in a suite file: characters, with \ and // in them
CasePaths == {<<"p">>, <<"d", "\\", "f">>, <<"d", "/", "/", "n">>}
CaseItems == CasePaths \cup {BadItem}

\* what the case module at a path does: "p" has a run() that returns, "f" has
\* a run() that raises, "n" has no run()
CaseKind(case) == case[Len(case)]

\* the hooks registered globally, per stage, in registration order
GlobalHooks(stage) ==
    CASE stage = "before_test_suite" -> <<"g_bts">>
      [] stage = "before_test_case"  -> <<"g_btc">>
      [] stage = "after_test_case"   -> <<"g_atc", "g_atc0">>
      [] stage = "after_test_suite"  -> <<"g_ats">>
      [] OTHER -> <<>>

\* the hooks the listener module of a suite registers, per stage
SuiteHooks(suite, stage) ==
    CASE suite = "A" /\ stage = "setup"              -> <<"a_setup">>
      [] suite = "A" /\ stage = "setup_test_case"    -> <<"a_stc">>
      [] suite = "A" /\ stage = "before_test_case"   -> <<"a_btc">>
      [] suite = "A" /\ stage = "teardown_test_case" -> <<"a_ttc">>
      [] suite = "A" /\ stage = "teardown"           -> <<"a_td">>
      [] suite = "B" /\ stage = "setup"              -> <<"b_setup">>
      [] suite = "B" /\ stage = "teardown"           -> <<"b_td0">>
      [] OTHER -> <<>>

\* hooks declared with no parameters
ZeroArity == {"g_atc0", "b_td0"}

Range(s) == {s[i] : i \in DOMAIN s}
AllGlobalHooks == UNION {Range(GlobalHooks(st)) : st \in StageSet}
AllSuiteHooks(suite) == UNION {Range(SuiteHooks(suite, st)) : st \in StageSet}
AllHooks == AllGlobalHooks \cup UNION {AllSuiteHooks(s) : s \in SuiteIds}

(***************************************************************************)
(* Pure functions of the runner.                                           *)
(***************************************************************************)
\* str.replace('\\', '/')
ReplaceBackslash(s) == [i \in DOMAIN s |-> IF s[i] = "\\" THEN "/" ELSE s[i]]

\* str.replace('//', '/'): one pass, left to right, matches do not overlap
RECURSIVE ReplaceDoubleSlash(_)
ReplaceDoubleSlash(s) ==
    IF Len(s) < 2 THEN s
    ELSE IF s[1] = "/" /\ s[2] = "/"
         THEN <<"/">> \o ReplaceDoubleSlash(SubSeq(s, 3, Len(s)))
         ELSE <<s[1]>> \o ReplaceDoubleSlash(Tail(s))

\* Runner._normalized_path
NormalizedPath(target) == ReplaceDoubleSlash(ReplaceBackslash(target))

\* Runner.run_case: raises when the module's run() raises or is missing
RunCaseRaises(case) == CaseKind(case) # "p"

\* the status is never set to "failed" in the except branch
CaseStatus_AlwaysPassed(case) == "passed"

\* the status run_suite records for a case
CaseStatus(case) == IF RunCaseRaises(case) THEN "failed" ELSE "passed"

\* the result record run_suite builds after a case
ResultRecord(case) == [status |-> CaseStatus(case), name |-> case]

\* no result record yet
NoData == [status |-> None, name |-> <<>>]

\* the argument tuple run_suite passes to _invoke_hook at a stage
StageArgs(stage, suite_path, case, data) ==
    CASE stage \in {"before_test_suite", "setup", "teardown", "after_test_suite"}
           -> <<[suite |-> suite_path]>>
      [] stage = "before_test_case" -> <<[case |-> case]>>
      [] stage = "setup_test_case"  -> <<[case |-> case], NoData>>
      [] OTHER -> <<[case |-> case], data>>

\* every hook is handed the stage's arguments, whatever it declares
CallArgs_AlwaysArgs(hook, args) == args

\* Runner._invoke_hook: what the hook is called with
CallArgs(hook, args) == IF hook \in ZeroArity THEN <<>> ELSE args

\* the before_test_case loop is missing from the case loop
AfterStage_SkipsBeforeTestCase(stage) ==
    CASE stage = "before_test_suite"  -> "setup"
      [] stage = "setup"              -> "open"
      [] stage = "setup_test_case"    -> "run_case"
      [] stage = "before_test_case"   -> "run_case"
      [] stage = "after_test_case"    -> "teardown_test_case"
      [] stage = "teardown_test_case" -> "next_case"
      [] stage = "teardown"           -> "after_test_suite"
      [] stage = "after_test_suite"   -> "exit_ok"

\* the statement of run_suite that follows the hook loop of a stage
AfterStage(stage) ==
    CASE stage = "before_test_suite"  -> "setup"
      [] stage = "setup"              -> "open"
      [] stage = "setup_test_case"    -> "before_test_case"
      [] stage = "before_test_case"   -> "run_case"
      [] stage = "after_test_case"    -> "teardown_test_case"
      [] stage = "teardown_test_case" -> "next_case"
      [] stage = "teardown"           -> "after_test_suite"
      [] stage = "after_test_suite"   -> "exit_ok"

(***************************************************************************)
(* The thread context store (orbs/thread_context.py).                      *)
(***************************************************************************)
ContextKeys == {"device_id", "platform"}

\* one store for the whole process: the value lands in every thread's slot
set_context_Shared(c, t, key, value) == [u \in DOMAIN c |-> [c[u] EXCEPT ![key] = value]]

\* set_context(key, value), called by thread t
set_context(c, t, key, value) == [c EXCEPT ![t][key] = value]

\* get_context(key, default), called by thread t
get_context(c, t, key, default) ==
    IF c[t][key] = Unset THEN default ELSE c[t][key]

(***************************************************************************)
(* The hook registry (orbs/listener_manager.py).                           *)
(***************************************************************************)
\* enabled_listeners.get(stage, []) while the suite-local hooks are those of
\* suite `loaded_suite` (None: no suite loaded yet): global hooks first
EnabledListeners(registered, loaded_suite, stage) ==
    IF ~registered THEN <<>>
    ELSE GlobalHooks(stage)
         \o (IF loaded_suite = None THEN <<>> ELSE SuiteHooks(loaded_suite, stage))

\* load_suite_listeners(suite_path): the suite-local set after the call
LoadSuiteListeners(loaded_suite, suite_path) == suite_path

(***************************************************************************)
(* State.                                                                  *)
(***************************************************************************)
VARIABLES
    \* the collection file: exists, execution_method, max_concurrent_instances,
    \* delay_between_instances(s), testsuites
    collExists, method, max_inst, delay, entries,
    \* the suite files, by path
    suiteFile,
    \* whether the project registers the hooks above (FALSE: no listeners)
    listeners,
    \* the hooks that raise when called
    raising,
    \* whether the mobile tooling check_dependencies needs is there
    depsOk,
    \* deviceName of settings/appium.properties
    deviceName,
    \* run_suite_collection on the calling thread: its position, its loop
    \* index, the exception it is raising
    mpc, mi, mexc,
    \* the ThreadPoolExecutor: work queue, futures, threads started, idle
    \* semaphore
    queue, fut, nthreads, idle,
    \* per thread: the _run_entry / run_suite frame it executes
    th,
    \* per thread: what the current _run_entry call did so far (hook calls,
    \* case runs, logged errors)
    runlog,
    \* the suite whose suite-local hooks the registry holds
    loaded,
    \* the thread context store
    ctx,
    \* per thread: the device_id values the thread itself stored
    wrote,
    \* the entries _run_entry was called for so far, in call order
    started,
    \* the Appium installation and the device: whether the server can be
    \* brought up, whether adb and appium are on the path, whether a device is
    \* connected, the major version of appium
    appium,
    \* the retry_count values create_driver is called with
    retryArgs,
    \* the error texts a failing session creation or probe comes with
    serverErrors,
    \* the value of the configuration key "browser" (Unset: not configured)
    browserCfg,
    \* per thread: whether the context holds a report
    report,
    \* whether the UiAutomator2 helper packages are installed on the device
    helperInstalled,
    \* the MobileFactory.create_driver call in progress or last made
    mob,
    \* the threads a driver factory ran in
    factoryRan,
    \* per thread: the context key "screenshots" (None, or a list of paths)
    screenshots,
    \* the wrapped drivers handed out so far
    drivers,
    \* the last BrowserFactory.create_driver call
    bcall,
    \* the screenshot files on disk, and the .error sidecars
    files, sidecars,
    \* the last wrapped screenshot call
    shot,
    \* the threads a wrapped screenshot call was made in
    shotIn,
    \* how many captures of a relative name the browser wrapper wrote to a path
    relWrites,
    \* whether os.environ keeps the letter case of names (POSIX) or stores
    \* them in upper case (Windows)
    posix,
    \* os.environ, the lines of the .env file, the lines of the .properties
    \* files
    environ, envFile, propsFile,
    \* Config.properties, whether the Config object is constructed, the last
    \* Config.get call
    properties, cfgReady, cfgCall,
    \* Mobile._driver (0: None) and the thread that holds Mobile._lock
    cls_driver, cls_lock,
    \* per thread: the call of the Mobile keyword layer it is in or made last
    kw,
    \* how many sessions MobileFactory.create_driver handed to the Mobile
    \* layer, how often it was invoked there, how often it raised
    created, creates, raisedCreates,
    \* the sessions a reset_driver or quit call that returned had quit
    retired,
    \* how many calls of the layer were made, and whether all were _get_driver
    ncalls, onlyGets

collVars == <<collExists, method, max_inst, delay, entries, suiteFile, listeners, raising, depsOk>>
poolVars == <<queue, fut, nthreads, idle>>
mainVars == <<mpc, mi, mexc>>
ctxVars == <<ctx, wrote>>
envVars == <<appium, retryArgs, serverErrors, browserCfg, report>>
shotVars == <<files, sidecars, shot, shotIn, relWrites>>
cfgVars == <<posix, environ, envFile, propsFile, properties, cfgReady, cfgCall>>
kwVars == <<cls_driver, cls_lock, kw, created, creates, raisedCreates, retired, ncalls, onlyGets>>
libVars == <<cfgVars, kwVars>>
driverVars == <<envVars, helperInstalled, mob, factoryRan, screenshots, drivers, bcall, shotVars>>
coreVars == <<collVars, deviceName, mainVars, poolVars, th, runlog, loaded, ctxVars, started>>
facVars == <<driverVars, libVars>>
runVars == <<coreVars, libVars>>
vars == <<collVars, deviceName, mainVars, poolVars, th, runlog, loaded, ctxVars, started, facVars>>

HookStage(pc) == pc \in StageSet
InRunSuite(pc) == pc \in StageSet \cup {"load", "open", "next_case", "run_case"}
InRunEntry(pc) == InRunSuite(pc) \/ pc \in {"set_ctx", "check_deps"}
Exited(pc) == pc \in {"exit_ok", "exit_raised"}

\* a thread that is not inside _run_entry
IdleFrame == [pc |-> "idle", entry |-> 0, suite |-> None, entered |-> FALSE,
              hooks |-> <<>>, ci |-> 0, case |-> <<>>, data |-> NoData,
              exc |-> "none", seen |-> Unset]

\* a frame at the first statement of _run_entry(entries[i])
EntryFrame(i) == [IdleFrame EXCEPT !.pc = "set_ctx", !.entry = i]

\* the entry a thread is running
EntryOf(t) == entries[th[t].entry]

\* the cases of the suite a thread is running
CasesOf(t) == suiteFile[th[t].suite].cases

(***************************************************************************)
(* Runner.run_suite_collection._run_entry                                  *)
(***************************************************************************)
\* the context left alone when the entry carries no device_id
RunEntryContext_OnlyIfProvided(c, t, e) ==
    IF e.bare \/ e.device_id = None THEN c
    ELSE set_context(c, t, "device_id", e.device_id)

\* lines 141-151: the device_id unpacked from the entry (None for a bare path
\* or a mapping without the key) is stored in the thread context, always
RunEntryContext(c, t, e) ==
    set_context(c, t, "device_id", IF e.bare THEN None ELSE e.device_id)

\* lines 141-152 and 154: unpack the entry, set_context("device_id", ...),
\* test the platform, join the suite path
RunEntrySetContext(t) ==
    /\ th[t].pc = "set_ctx"
    /\ LET e == EntryOf(t)
           device_id == IF e.bare THEN None ELSE e.device_id
           platform == IF e.bare THEN None ELSE e.platform
       IN /\ ctx' = RunEntryContext(ctx, t, e)
          /\ wrote' = [wrote EXCEPT ![t] = @ \cup {device_id}]
          /\ th' = [th EXCEPT ![t].suite = e.testsuite,
                              ![t].pc = IF platform \in PLATFORM_LIST.mobile
                                        THEN "check_deps" ELSE "load"]
    /\ UNCHANGED <<facVars, collVars, deviceName, mainVars, poolVars, runlog, loaded, started>>

\* line 153: check_dependencies() (orbs/utils.py): ensure_appium_server, then
\* the device name from the context or the configuration; a missing one is
\* asked for and written to the properties
CheckDependencies(t) ==
    /\ th[t].pc = "check_deps"
    /\ LET device_name == get_context(ctx, t, "device_id", deviceName)
           ask == device_name \in {None, "", "auto", "detect"}
       IN IF depsOk
          THEN /\ th' = [th EXCEPT ![t].pc = "load", ![t].seen = device_name]
               /\ deviceName' = IF ask THEN "picked" ELSE deviceName
          ELSE /\ th' = [th EXCEPT ![t].pc = "exit_raised", ![t].exc = "deps"]
               /\ UNCHANGED deviceName
    /\ UNCHANGED <<facVars, collVars, mainVars, poolVars, runlog, loaded, ctxVars, started>>

(***************************************************************************)
(* Runner.run_suite                                                        *)
(***************************************************************************)
\* the suite-local hooks are loaded for the first suite of the process only
RunSuiteLoad_OnlyOnce(t) ==
    /\ th[t].pc = "load"
    /\ loaded' = IF loaded = None THEN LoadSuiteListeners(loaded, th[t].suite) ELSE loaded
    /\ th' = [th EXCEPT ![t].pc = "before_test_suite"]
    /\ runlog' = [runlog EXCEPT ![t] = Append(@, [ev |-> "run_suite", suite |-> th[t].suite])]
    /\ UNCHANGED <<facVars, collVars, deviceName, mainVars, poolVars, ctxVars, started>>

\* line 51: load_suite_listeners(suite_path)
RunSuiteLoad(t) ==
    /\ th[t].pc = "load"
    /\ loaded' = LoadSuiteListeners(loaded, th[t].suite)
    /\ th' = [th EXCEPT ![t].pc = "before_test_suite"]
    /\ runlog' = [runlog EXCEPT ![t] = Append(@, [ev |-> "run_suite", suite |-> th[t].suite])]
    /\ UNCHANGED <<facVars, collVars, deviceName, mainVars, poolVars, ctxVars, started>>

\* the frame once the hook loop of its stage holds the hooks `hs`: with none
\* left the loop is over and the next statement follows
WithHooks(f, hs) ==
    IF hs = <<>>
    THEN [f EXCEPT !.hooks = <<>>, !.entered = FALSE, !.pc = AfterStage(f.pc)]
    ELSE [f EXCEPT !.hooks = hs, !.entered = TRUE]

\* `for hook in enabled_listeners.get(stage, [])`: the list is read once,
\* when the loop starts
EnterStage(t) ==
    /\ HookStage(th[t].pc)
    /\ ~th[t].entered
    /\ th' = [th EXCEPT ![t] = WithHooks(@, EnabledListeners(listeners, loaded, th[t].pc))]
    /\ UNCHANGED <<facVars, collVars, deviceName, mainVars, poolVars, runlog, loaded, ctxVars, started>>

\* what one _invoke_hook call adds to the thread's log: the call (with the
\* position of the case loop it was made at), and the logger.error of a hook
\* that raised
HookEvents(f, hook) ==
    LET call == [ev |-> "hook", stage |-> f.pc, hook |-> hook, ci |-> f.ci,
                 args |-> CallArgs(hook, StageArgs(f.pc, f.suite, f.case, f.data))]
    IN IF hook \in raising
       THEN <<call, [ev |-> "hook_error", hook |-> hook]>>
       ELSE <<call>>

\* _invoke_hook without its try: what a hook raises leaves run_suite
AfterHook_Propagates(f, hook) ==
    IF hook \in raising
    THEN [f EXCEPT !.pc = "exit_raised", !.exc = "hook"]
    ELSE WithHooks(f, Tail(f.hooks))

\* the frame after _invoke_hook returned: a raising hook was caught (lines
\* 46-47) and the loop goes on
AfterHook(f, hook) == WithHooks(f, Tail(f.hooks))

\* lines 35-47, one iteration of a stage's hook loop
InvokeHook(t) ==
    /\ HookStage(th[t].pc)
    /\ th[t].entered
    /\ LET hook == Head(th[t].hooks)
       IN /\ runlog' = [runlog EXCEPT ![t] = @ \o HookEvents(th[t], hook)]
          /\ th' = [th EXCEPT ![t] = AfterHook(@, hook)]
    /\ UNCHANGED <<facVars, collVars, deviceName, mainVars, poolVars, loaded, ctxVars, started>>

\* lines 61-64: open the suite file, yaml.safe_load, suite.get("test_cases")
OpenSuite(t) ==
    /\ th[t].pc = "open"
    /\ LET file == suiteFile[th[t].suite]
       IN th' = [th EXCEPT ![t] =
                   CASE file.kind = "unreadable" -> [@ EXCEPT !.pc = "exit_raised", !.exc = "open"]
                     [] file.kind = "empty"      -> [@ EXCEPT !.pc = "exit_raised", !.exc = "parse"]
                     [] OTHER                    -> [@ EXCEPT !.pc = "next_case", !.ci = 0]]
    /\ UNCHANGED <<facVars, collVars, deviceName, mainVars, poolVars, runlog, loaded, ctxVars, started>>

\* lines 64-65: the next element of the case list, normalised; an element
\* that is no string has no replace()
NextCase(t) ==
    /\ th[t].pc = "next_case"
    /\ LET cases == CasesOf(t)
           i == th[t].ci + 1
       IN th' = [th EXCEPT ![t] =
                   IF i > Len(cases) THEN [@ EXCEPT !.pc = "teardown"]
                   ELSE IF cases[i] = BadItem
                        THEN [@ EXCEPT !.pc = "exit_raised", !.exc = "malformed"]
                        ELSE [@ EXCEPT !.pc = "setup_test_case", !.ci = i,
                                       !.case = NormalizedPath(cases[i])]]
    /\ UNCHANGED <<facVars, collVars, deviceName, mainVars, poolVars, runlog, loaded, ctxVars, started>>

\* what running a case adds to the thread's log
CaseEvents(case) ==
    IF RunCaseRaises(case)
    THEN <<[ev |-> "case", case |-> case], [ev |-> "case_error", case |-> case]>>
    ELSE <<[ev |-> "case", case |-> case]>>

\* a failing case leaves the case loop (no try around run_case)
AfterCase_FailureEndsLoop(f) ==
    IF RunCaseRaises(f.case)
    THEN [f EXCEPT !.data = ResultRecord(f.case), !.pc = "teardown"]
    ELSE [f EXCEPT !.data = ResultRecord(f.case), !.pc = "after_test_case"]

\* the frame after lines 75-82
AfterCase(f) == [f EXCEPT !.data = ResultRecord(f.case), !.pc = "after_test_case"]

\* lines 75-82: run the case, catch what it raises, build the result record
RunCase(t) ==
    /\ th[t].pc = "run_case"
    /\ runlog' = [runlog EXCEPT ![t] = @ \o CaseEvents(th[t].case)]
    /\ th' = [th EXCEPT ![t] = AfterCase(@)]
    /\ UNCHANGED <<facVars, collVars, deviceName, mainVars, poolVars, loaded, ctxVars, started>>

\* one step of _run_entry on thread t
EntryStep(t) ==
    \/ RunEntrySetContext(t)
    \/ CheckDependencies(t)
    \/ RunSuiteLoad(t)
    \/ EnterStage(t)
    \/ InvokeHook(t)
    \/ OpenSuite(t)
    \/ NextCase(t)
    \/ RunCase(t)

(***************************************************************************)
(* Runner.run_suite_collection                                             *)
(***************************************************************************)
NumEntries == Len(entries)

\* the branch tests the method alone
UsePool_AnyParallel == method = "parallel"

\* line 157: the pool is used only for "parallel" with more than one instance
UsePool == method = "parallel" /\ max_inst > 1

\* lines 129-137 and 157: a missing collection file is fatal; otherwise the
\* specification is read and the branch chosen
CollectionStart ==
    /\ mpc = "start"
    /\ IF ~collExists
       THEN /\ mpc' = "raised"
            /\ mexc' = "FileNotFoundError"
            /\ UNCHANGED mi
       ELSE /\ mpc' = IF UsePool
                      THEN (IF NumEntries = 0 THEN "shutdown" ELSE "submit")
                      ELSE (IF NumEntries = 0 THEN "returned" ELSE "seq")
            /\ mi' = 1
            /\ UNCHANGED mexc
    /\ UNCHANGED <<facVars, collVars, deviceName, poolVars, th, runlog, loaded, ctxVars, started>>

\* the pool is built without max_workers: a thread for every entry
MaxWorkers_Unbounded == MaxEntries

\* line 158: ThreadPoolExecutor(max_workers=max_inst)
MaxWorkers == max_inst

\* where the submit loop goes after entry i: the next entry, or the result loop
AfterSubmit(i) == IF i < NumEntries THEN "submit" ELSE "result"

\* lines 160-161: executor.submit(_run_entry, entry): the future is queued; a
\* thread is started unless an idle one is waiting or max_workers are running
Submit ==
    /\ mpc = "submit"
    /\ queue' = Append(queue, mi)
    /\ fut' = [fut EXCEPT ![mi] = "pending"]
    /\ IF idle > 0
       THEN idle' = idle - 1 /\ UNCHANGED nthreads
       ELSE /\ nthreads' = IF nthreads < MaxWorkers THEN nthreads + 1 ELSE nthreads
            /\ UNCHANGED idle
    /\ IF delay > 0
       THEN mpc' = "sleep" /\ UNCHANGED mi
       ELSE /\ mpc' = AfterSubmit(mi)
            /\ mi' = IF mi < NumEntries THEN mi + 1 ELSE 1
    /\ UNCHANGED <<facVars, collVars, deviceName, mexc, th, runlog, loaded, ctxVars, started>>

\* lines 162-163: time.sleep(delay) between two submissions
SubmitSleep ==
    /\ mpc = "sleep"
    /\ mpc' = AfterSubmit(mi)
    /\ mi' = IF mi < NumEntries THEN mi + 1 ELSE 1
    /\ UNCHANGED <<facVars, collVars, deviceName, mexc, poolVars, th, runlog, loaded, ctxVars, started>>

\* a pool thread takes the oldest queued work item and calls _run_entry
WorkerPick(w) ==
    /\ w \in 1..nthreads
    /\ th[w].pc = "idle"
    /\ queue # <<>>
    /\ LET i == Head(queue)
       IN /\ queue' = Tail(queue)
          /\ fut' = [fut EXCEPT ![i] = "running"]
          /\ th' = [th EXCEPT ![w] = EntryFrame(i)]
          /\ runlog' = [runlog EXCEPT ![w] = <<>>]
          /\ started' = Append(started, i)
    /\ UNCHANGED <<facVars, collVars, deviceName, mainVars, nthreads, idle, loaded, ctxVars>>

\* _run_entry ended on a pool thread: the future holds its result or its
\* exception, the thread waits for work again
WorkerFinish(w) ==
    /\ w \in Workers
    /\ Exited(th[w].pc)
    /\ fut' = [fut EXCEPT ![th[w].entry] =
                 IF th[w].pc = "exit_ok" THEN "done" ELSE "failed"]
    /\ th' = [th EXCEPT ![w] = IdleFrame]
    /\ idle' = idle + 1
    /\ UNCHANGED <<facVars, collVars, deviceName, mainVars, queue, nthreads, runlog, loaded, ctxVars, started>>

\* the futures are resolved outside the with block: what result() raises
\* leaves the call without joining the pool
FutureResult_NoJoin ==
    /\ mpc = "result"
    /\ fut[mi] \in {"done", "failed"}
    /\ IF fut[mi] = "failed"
       THEN /\ mexc' = "entry"
            /\ mpc' = "raised"
            /\ UNCHANGED mi
       ELSE /\ mpc' = IF mi < NumEntries THEN "result" ELSE "shutdown"
            /\ mi' = IF mi < NumEntries THEN mi + 1 ELSE mi
            /\ UNCHANGED mexc
    /\ UNCHANGED <<facVars, collVars, deviceName, poolVars, th, runlog, loaded, ctxVars, started>>

\* lines 164-165: f.result() blocks until the future is resolved and raises
\* what the entry raised
FutureResult ==
    /\ mpc = "result"
    /\ fut[mi] \in {"done", "failed"}
    /\ IF fut[mi] = "failed"
       THEN /\ mexc' = "entry"
            /\ mpc' = "shutdown"
            /\ UNCHANGED mi
       ELSE /\ mpc' = IF mi < NumEntries THEN "result" ELSE "shutdown"
            /\ mi' = IF mi < NumEntries THEN mi + 1 ELSE mi
            /\ UNCHANGED mexc
    /\ UNCHANGED <<facVars, collVars, deviceName, poolVars, th, runlog, loaded, ctxVars, started>>

\* every pool thread has run the queue empty and ended
PoolJoined == queue = <<>> /\ \A w \in Workers : th[w].pc = "idle"

\* line 158, leaving the with block: executor.shutdown(wait=True) joins the
\* pool threads, then the call returns or the pending exception goes on
PoolShutdown ==
    /\ mpc = "shutdown"
    /\ PoolJoined
    /\ mpc' = IF mexc = "none" THEN "returned" ELSE "raised"
    /\ UNCHANGED <<facVars, collVars, deviceName, mi, mexc, poolVars, th, runlog, loaded, ctxVars, started>>

\* lines 167-168: the sequential loop calls _run_entry on the calling thread
SequentialCall ==
    /\ mpc = "seq"
    /\ th' = [th EXCEPT ![Main] = EntryFrame(mi)]
    /\ runlog' = [runlog EXCEPT ![Main] = <<>>]
    /\ started' = Append(started, mi)
    /\ mpc' = "seq_wait"
    /\ UNCHANGED <<facVars, collVars, deviceName, mi, mexc, poolVars, loaded, ctxVars>>

\* where the sequential loop goes after entry i
AfterSequential(i) == IF i < NumEntries THEN "seq" ELSE "returned"

\* lines 168-170: _run_entry came back: what it raised leaves the loop and
\* the call; otherwise the delay, then the next entry
SequentialReturn ==
    /\ mpc = "seq_wait"
    /\ Exited(th[Main].pc)
    /\ th' = [th EXCEPT ![Main] = IdleFrame]
    /\ IF th[Main].pc = "exit_raised"
       THEN /\ mpc' = "raised"
            /\ mexc' = "entry"
            /\ UNCHANGED mi
       ELSE /\ UNCHANGED mexc
            /\ IF delay > 0
               THEN mpc' = "seq_sleep" /\ UNCHANGED mi
               ELSE mpc' = AfterSequential(mi) /\ mi' = mi + 1
    /\ UNCHANGED <<facVars, collVars, deviceName, poolVars, runlog, loaded, ctxVars, started>>

\* lines 169-170: time.sleep(delay) after an entry
SequentialSleep ==
    /\ mpc = "seq_sleep"
    /\ mpc' = AfterSequential(mi)
    /\ mi' = mi + 1
    /\ UNCHANGED <<facVars, collVars, deviceName, mexc, poolVars, th, runlog, loaded, ctxVars, started>>

(***************************************************************************)
(* MobileFactory.create_driver (orbs/mobile_factory.py).                   *)
(***************************************************************************)
\* the threads that call the driver factories and the wrapped drivers
FThreads == {Main, 1}

IsPrefix(p, q) == Len(p) <= Len(q) /\ SubSeq(q, 1, Len(p)) = p

\* error texts, word by word
ErrorTexts == {<<"Unknown", "Command">>, <<"HTTP", "404">>, <<"Socket", "hang", "up">>}

\* the text of the error a failing driver.quit() raises
QuitErrorText == <<"Socket", "hang", "up">>

\* str.lower(), word by word
LowerWord(w) ==
    CASE w = "Unknown" -> "unknown"
      [] w = "Command" -> "command"
      [] w = "HTTP" -> "http"
      [] w = "Socket" -> "socket"
      [] OTHER -> w
LowerText(text) == [i \in DOMAIN text |-> LowerWord(text[i])]

\* keyword in error_str
Contains(text, keyword) ==
    \E i \in 1..(Len(text) - Len(keyword) + 1) :
      SubSeq(text, i, i + Len(keyword) - 1) = keyword

\* line 113: the keywords of an error caused by stale helper packages
StaleKeywords ==
    {<<"unknown", "command">>, <<"resource", "could", "not", "be", "found">>, <<"404">>}

\* lines 112-113: any(keyword in str(e).lower() ...)
StaleSignature(e) == \E k \in StaleKeywords : Contains(LowerText(e), k)

\* _cleanup_incompatible_apks_on_error(): TRUE when the helper packages were
\* uninstalled; that takes adb and appium on the path, a connected device,
\* the helper installed and appium 3 or later
CleanupIncompatibleApksOnError(ap, helper) ==
    /\ ap.tools
    /\ ap.connected
    /\ helper
    /\ ap.major >= 3

\* a restart after every failure that has an attempt left, cleanup or not
Restarts_AlsoAfterCleanup(stale, cleaned, attempt, retry_count) ==
    IF attempt < retry_count THEN 1 ELSE 0

\* lines 113-126: the calls of _restart_uiautomator2 after a failed attempt:
\* none when the cleanup was performed (continue), one when an attempt is
\* left, none when the call gives up
Restarts(stale, cleaned, attempt, retry_count) ==
    IF stale /\ cleaned THEN 0
    ELSE IF attempt < retry_count THEN 1 ELSE 0

\* lines 113-126: how the except block is left
RecoveryPath(stale, cleaned, attempt, retry_count) ==
    IF stale /\ cleaned THEN "continue"
    ELSE IF attempt < retry_count THEN "restart" ELSE "raise"

\* the context key "screenshots": None, or a list
ScreenshotsNone == [none |-> TRUE, items |-> <<>>]
ListOf(items) == [none |-> FALSE, items |-> items]

NoError == [type |-> "none", last |-> <<>>]

\* no create_driver call made yet
MobIdle ==
    [pc |-> "idle", t |-> Main, retry_count |-> 0, attempt |-> 0, driver |-> 0,
     e |-> <<>>, hist |-> <<>>, restarts |-> 0, device_name |-> "", error |-> NoError,
     hadList |-> FALSE, kept |-> TRUE]

\* an empty list whatever the thread had
EnsureList_Reset(s) == ListOf(<<>>)

\* mobile_factory.py 135-136, browser_factory.py 49-50:
\* if get_context("screenshots") is None: set_context("screenshots", [])
EnsureList(s) == IF s.none THEN ListOf(<<>>) ELSE s

\* no MobileFactory.create_driver call is under way
NoCreateInProgress == mob.pc \in {"idle", "returned", "raised"}

\* lines 30-67: ensure_appium_server(), the server URL, the device name from
\* the context key "platform" or the configuration
MobileCreateDriver(t, retry_count) ==
    /\ NoCreateInProgress
    /\ factoryRan' = factoryRan \cup {t}
    /\ LET fromContext == get_context(ctx, t, "platform", "")
           device_name == IF fromContext \in {"", None} THEN deviceName ELSE fromContext
           call == [MobIdle EXCEPT !.t = t, !.retry_count = retry_count,
                                   !.device_name = device_name]
       IN mob' = IF appium.server
                 THEN [call EXCEPT !.pc = "attempt"]
                 ELSE [call EXCEPT !.pc = "raised", !.error = [type |-> "Exit", last |-> <<>>]]
    /\ UNCHANGED <<runVars, envVars, helperInstalled, screenshots, drivers, bcall, shotVars>>

\* lines 69-106: one pass of the try block: webdriver.Remote(...) and the
\* probe driver.current_activity; a session whose probe fails is quit and
\* the error raised again (the error of quit() when quit() itself fails)
CreateSession ==
    /\ mob.pc = "attempt"
    /\ \E out \in {"created", "create_error", "probe_error"},
          text \in serverErrors \cup {<<>>}, quitOk \in BOOLEAN, installs \in BOOLEAN :
         LET sid == mob.attempt + 1
             e == IF ~quitOk THEN QuitErrorText ELSE text
             rec == [out |-> out,
                     text |-> IF out = "created" THEN <<>> ELSE e,
                     sid |-> IF out = "create_error" THEN 0 ELSE sid,
                     quit |-> IF out = "probe_error"
                              THEN (IF quitOk THEN "ok" ELSE "raised") ELSE "no",
                     cleaned |-> FALSE, restarted |-> 0]
         IN /\ out = "created" <=> text = <<>>
            /\ out # "probe_error" => quitOk
            /\ out # "create_error" => installs
            /\ installs \/ ~helperInstalled
            /\ helperInstalled' = (helperInstalled \/ installs)
            /\ mob' = [mob EXCEPT !.hist = Append(@, rec),
                                  !.driver = IF out = "create_error" THEN @ ELSE sid,
                                  !.e = rec.text,
                                  !.pc = IF out = "created" THEN "wrap" ELSE "failed"]
    /\ UNCHANGED <<runVars, envVars, factoryRan, screenshots, drivers, bcall, shotVars>>

\* lines 108-126: the except block
Recover ==
    /\ mob.pc = "failed"
    /\ LET stale == StaleSignature(mob.e)
           cleaned == stale /\ CleanupIncompatibleApksOnError(appium, helperInstalled)
           path == RecoveryPath(stale, cleaned, mob.attempt, mob.retry_count)
           restarted == Restarts(stale, cleaned, mob.attempt, mob.retry_count)
           n == Len(mob.hist)
           hist == [mob.hist EXCEPT ![n].cleaned = cleaned, ![n].restarted = restarted]
       IN /\ helperInstalled' = (helperInstalled /\ ~cleaned)
          /\ mob' = IF path = "raise"
                    THEN [mob EXCEPT !.hist = hist, !.pc = "raised",
                                     !.error = [type |-> "Exception", last |-> mob.e]]
                    ELSE [mob EXCEPT !.hist = hist,
                                     !.restarts = @ + restarted,
                                     !.attempt = @ + 1,
                                     !.pc = IF mob.attempt + 1 <= mob.retry_count
                                            THEN "attempt" ELSE "wrap"]
    /\ UNCHANGED <<runVars, envVars, factoryRan, screenshots, drivers, bcall, shotVars>>

\* lines 128-136 and 186: _setup_screenshot_wrapper(driver) and return driver;
\* a driver name that was never bound raises UnboundLocalError
SetupScreenshotWrapper ==
    /\ mob.pc = "wrap"
    /\ IF mob.driver = 0
       THEN /\ mob' = [mob EXCEPT !.pc = "raised",
                                  !.error = [type |-> "UnboundLocalError", last |-> <<>>]]
            /\ UNCHANGED <<screenshots, drivers>>
       ELSE /\ mob' = [mob EXCEPT !.pc = "returned",
                                  !.hadList = ~screenshots[mob.t].none,
                                  !.kept = IsPrefix(screenshots[mob.t].items,
                                                    EnsureList(screenshots[mob.t]).items)]
            /\ screenshots' = [screenshots EXCEPT ![mob.t] = EnsureList(@)]
            /\ drivers' = drivers \cup {[kind |-> "mobile", owner |-> mob.t]}
    /\ UNCHANGED <<runVars, envVars, helperInstalled, factoryRan, bcall, shotVars>>

\* MobileFactory.create_driver called by thread Main, step by step
NextMobile ==
    \/ \E r \in retryArgs : MobileCreateDriver(Main, r)
    \/ CreateSession
    \/ Recover
    \/ SetupScreenshotWrapper

(***************************************************************************)
(* BrowserFactory.create_driver (orbs/browser_factory.py) behind           *)
(* orbs_guard (orbs/guard.py).                                             *)
(***************************************************************************)
\* str.lower() of a browser or platform name
LowerName(name) ==
    CASE name = "Chrome" -> "chrome"
      [] name = "Firefox" -> "firefox"
      [] name = "Opera" -> "opera"
      [] OTHER -> name

\* line 23: config.get("browser", "chrome")
ConfigBrowser(cfg) == IF cfg = Unset THEN "chrome" ELSE cfg

\* lines 17-23: the platform of the thread context when it is set, or else
\* the configured browser, in lower case
ResolveBrowser(c, t, cfg) ==
    LET platform_from_context == get_context(c, t, "platform", None)
    IN IF platform_from_context \notin {None, ""}
       THEN LowerName(platform_from_context)
       ELSE LowerName(ConfigBrowser(cfg))

\* lines 28-46: what the body of create_driver does for a browser name:
\* a webdriver constructor call that works or raises, or "Unsupported browser"
CreateBody(browser, launchOk) ==
    IF browser \in {"chrome", "firefox"}
    THEN [launched |-> 1, outcome |-> IF launchOk THEN "driver" ELSE "WebDriverException"]
    ELSE [launched |-> 0, outcome |-> "Exception"]

\* orbs.exception.BrowserDriverException, an OrbsException that
\* browser_factory.py imports (line 3)
BrowserDriverException == "BrowserDriverException"

\* the error of the wrapped function let through as it is
OrbsGuard_PassThrough(error_cls, outcome) == outcome

\* guard.py 13-50: a return value and an OrbsException pass, every other
\* exception is raised again as error_cls
OrbsGuard(error_cls, outcome) ==
    IF outcome \in {"driver", "OrbsException"} THEN outcome ELSE error_cls

NoBrowserCall ==
    [t |-> Main, platform |-> Unset, cfg |-> Unset, browser |-> "", result |-> "none",
     launched |-> 0, hadList |-> FALSE, unchanged |-> TRUE, kept |-> TRUE]

\* BrowserFactory.create_driver() called by thread t
BrowserCreateDriver(t) ==
    /\ NoCreateInProgress
    /\ factoryRan' = factoryRan \cup {t}
    /\ \E launchOk \in BOOLEAN :
         LET browser == ResolveBrowser(ctx, t, browserCfg)
             body == CreateBody(browser, launchOk)
             result == OrbsGuard(BrowserDriverException, body.outcome)
             after == IF result = "driver" THEN EnsureList(screenshots[t])
                      ELSE screenshots[t]
         IN /\ body.launched = 0 => launchOk
            /\ screenshots' = [screenshots EXCEPT ![t] = after]
            /\ drivers' = IF result = "driver"
                          THEN drivers \cup {[kind |-> "browser", owner |-> t]}
                          ELSE drivers
            /\ bcall' = [t |-> t, platform |-> ctx[t]["platform"], cfg |-> browserCfg,
                         browser |-> browser, result |-> result,
                         launched |-> body.launched,
                         hadList |-> ~screenshots[t].none,
                         unchanged |-> (after = screenshots[t]),
                         kept |-> IsPrefix(screenshots[t].items, after.items)]
    /\ UNCHANGED <<runVars, envVars, helperInstalled, mob, shotVars>>

(***************************************************************************)
(* The wrapped screenshot calls.                                           *)
(***************************************************************************)
\* file names, piece by piece; the last piece may be an extension
Extensions == {".png"}
FileNames == {<<"shot", ".png">>, <<"shot", "_", "1", ".png">>}

\* a path as the caller writes it: a file name alone, or absolute
RelativePath(file) == [abs |-> FALSE, dir |-> "", file |-> file]
AbsolutePath(dir, file) == [abs |-> TRUE, dir |-> dir, file |-> file]
ShotPaths == {RelativePath(f) : f \in FileNames} \cup {AbsolutePath("/tmp", <<"shot", ".png">>)}

\* os.path.splitext(filename)
SplitExt(file) ==
    IF Len(file) > 1 /\ file[Len(file)] \in Extensions
    THEN [base |-> SubSeq(file, 1, Len(file) - 1), ext |-> <<file[Len(file)]>>]
    ELSE [base |-> file, ext |-> <<>>]

\* f"{base}_{i}{ext}"
NumberedName(file, i) ==
    SplitExt(file).base \o <<"_", ToString(i)>> \o SplitExt(file).ext

\* rpt.screenshots_dir, or ./screenshots when the context holds no report
ScreenshotsDir(hasReport) == IF hasReport THEN "/report/screenshots" ELSE "/cwd/screenshots"

\* the first numbered name, whether or not it exists
FreePath_FirstSuffix(dir, file, i, fs) == AbsolutePath(dir, NumberedName(file, i))

\* browser_factory.py 67-70: the loop over name_1, name_2, ... that ends at
\* the first path that does not exist
RECURSIVE FreePath(_, _, _, _)
FreePath(dir, file, i, fs) ==
    IF AbsolutePath(dir, NumberedName(file, i)) \notin fs
    THEN AbsolutePath(dir, NumberedName(file, i))
    ELSE FreePath(dir, file, i + 1, fs)

\* browser_factory.py 56-70 and 73: where a screenshot goes
BrowserTarget(path, dir, fs) ==
    IF path.abs THEN path
    ELSE IF AbsolutePath(dir, path.file) \notin fs
         THEN AbsolutePath(dir, path.file)
         ELSE FreePath(dir, path.file, 1, fs)

\* mobile_factory.py 141-150: where a screenshot goes
MobileTarget(path, dir) ==
    IF path.abs THEN path ELSE AbsolutePath(dir, path.file)

\* get_context("screenshots") or []
ShotsOrEmpty(s) == IF s.none THEN <<>> ELSE s.items

NoShot ==
    [t |-> Main, kind |-> "none", input |-> RelativePath(<<>>), target |-> RelativePath(<<>>),
     existed |-> FALSE, probe1 |-> FALSE, probe2 |-> FALSE, captureOk |-> FALSE,
     sidecarOk |-> FALSE, attempted |-> FALSE, sidecar |-> FALSE, result |-> "none",
     kept |-> TRUE, added |-> 0, unchanged |-> TRUE]

\* the entries of all the screenshot lists
TotalShots == Len(ShotsOrEmpty(screenshots[Main])) + Len(ShotsOrEmpty(screenshots[1]))

\* browser_factory.py 54-78: driver.save_screenshot(path) on a wrapped
\* browser driver, called by thread t; the capture works or raises
SaveScreenshot(t, path, captureOk) ==
    /\ \E d \in drivers : d.kind = "browser"
    /\ TotalShots < MaxShots
    /\ shotIn' = shotIn \cup {t}
    /\ LET target == BrowserTarget(path, ScreenshotsDir(report[t]), files)
           after == ListOf(Append(ShotsOrEmpty(screenshots[t]), target))
       IN /\ screenshots' = [screenshots EXCEPT ![t] = after]
          /\ files' = IF captureOk THEN files \cup {target} ELSE files
          /\ relWrites' = IF captureOk /\ ~path.abs
                          THEN relWrites (+) SetToBag({target}) ELSE relWrites
          /\ shot' = [NoShot EXCEPT !.t = t, !.kind = "browser", !.input = path,
                                    !.target = target, !.existed = (target \in files),
                                    !.captureOk = captureOk, !.attempted = TRUE,
                                    !.result = IF captureOk THEN "ok" ELSE "raised",
                                    !.kept = IsPrefix(ShotsOrEmpty(screenshots[t]), after.items),
                                    !.added = Len(after.items) - Len(ShotsOrEmpty(screenshots[t])),
                                    !.unchanged = (after = screenshots[t])]
    /\ UNCHANGED <<runVars, envVars, helperInstalled, mob, factoryRan, drivers,
                   bcall, sidecars>>

\* the capture made whatever the probes said
SessionValidated_Unchecked(probe1, probe2) == TRUE

\* mobile_factory.py 155-164: driver.current_activity, tried twice
SessionValidated(probe1, probe2) == probe1 \/ probe2

\* mobile_factory.py 140-184: driver.get_screenshot_as_file(path) on a wrapped
\* mobile driver, called by thread t; each probe, the capture and the write
\* of the .error file work or raise
GetScreenshotAsFile(t, path, probe1, probe2, captureOk, sidecarOk) ==
    /\ \E d \in drivers : d.kind = "mobile"
    /\ TotalShots < MaxShots
    /\ shotIn' = shotIn \cup {t}
    /\ LET target == MobileTarget(path, ScreenshotsDir(report[t]))
           shots == ShotsOrEmpty(screenshots[t])
           attempted == SessionValidated(probe1, probe2)
           ok == attempted /\ captureOk
           after == IF ok THEN ListOf(Append(shots, target)) ELSE screenshots[t]
       IN /\ screenshots' = [screenshots EXCEPT ![t] = after]
          /\ files' = IF ok THEN files \cup {target} ELSE files
          /\ sidecars' = IF ~ok /\ sidecarOk THEN sidecars \cup {target} ELSE sidecars
          /\ shot' = [NoShot EXCEPT !.t = t, !.kind = "mobile", !.input = path,
                                    !.target = target, !.existed = (target \in files),
                                    !.probe1 = probe1, !.probe2 = probe2,
                                    !.captureOk = captureOk, !.sidecarOk = sidecarOk,
                                    !.attempted = attempted,
                                    !.sidecar = (~ok /\ sidecarOk),
                                    !.result = IF ok THEN "ok" ELSE "raised",
                                    !.kept = IsPrefix(ShotsOrEmpty(screenshots[t]), after.items),
                                    !.added = Len(after.items) - Len(ShotsOrEmpty(screenshots[t])),
                                    !.unchanged = (after = screenshots[t])]
    /\ UNCHANGED <<runVars, envVars, helperInstalled, mob, factoryRan, drivers,
                   bcall, relWrites>>

\* get_screenshot_as_file of one relative name with every outcome; an outcome
\* that is never looked at is not varied
MobileScreenshot ==
    \E t \in FThreads, probe1, probe2, captureOk, sidecarOk \in BOOLEAN :
      /\ NoCreateInProgress
      /\ probe1 => probe2
      /\ ~probe2 => captureOk
      /\ (probe2 /\ captureOk) => sidecarOk
      /\ GetScreenshotAsFile(t, RelativePath(<<"shot", ".png">>), probe1, probe2,
                             captureOk, sidecarOk)

\* the wrapped screenshot calls of one relative name, each of them working or
\* failing: the browser capture raises, the mobile session is gone
ScreenshotCall ==
    \/ \E t \in FThreads, captureOk \in BOOLEAN :
         /\ NoCreateInProgress
         /\ SaveScreenshot(t, RelativePath(<<"shot", ".png">>), captureOk)
    \/ \E t \in FThreads, alive \in BOOLEAN :
         /\ NoCreateInProgress
         /\ GetScreenshotAsFile(t, RelativePath(<<"shot", ".png">>), alive, alive, TRUE, TRUE)

(***************************************************************************)
(* Initial states and specifications.                                      *)
(***************************************************************************)
\* sequences over S of length 0..n
RECURSIVE SeqsUpTo(_, _)
SeqsUpTo(S, n) ==
    IF n = 0 THEN {<<>>}
    ELSE LET shorter == SeqsUpTo(S, n - 1)
         IN shorter \cup {Append(q, x) : q \in {r \in shorter : Len(r) = n - 1}, x \in S}

OkFile(cases) == [kind |-> "ok", cases |-> cases]
Unreadable == [kind |-> "unreadable", cases |-> <<>>]
EmptyFile == [kind |-> "empty", cases |-> <<>>]

\* what a suite file can hold: a case list of up to MaxCases elements, nothing,
\* or it cannot be opened
SuiteFiles == {OkFile(c) : c \in SeqsUpTo(CaseItems, MaxCases)} \cup {Unreadable, EmptyFile}

BareEntry(suite) == [bare |-> TRUE, testsuite |-> suite, platform |-> None, device_id |-> None]
DictEntry(suite, platform, device_id) ==
    [bare |-> FALSE, testsuite |-> suite, platform |-> platform, device_id |-> device_id]

\* the entries collection files are made of
EntryPool == {BareEntry("A"), DictEntry("B", "chrome", "dev2"), DictEntry("A", "android", "dev1")}

(***************************************************************************)
(* The Mobile keyword layer (orbs/keyword/mobile.py).                      *)
(***************************************************************************)
\* Mobile._lock held by nobody
Free == -1
\* a call that has not returned, a call that raised
NotReturned == -1
Raised == -2

\* the operations of the layer that deal with the driver
KeywordOps == {"_get_driver", "use_driver", "sync_with_context", "reset_driver", "quit"}

\* a thread outside the layer
KwIdle == [op |-> "none", pc |-> "idle", arg |-> 0, ret |-> NotReturned,
           nested |-> FALSE, saw_none |-> FALSE, quitRaised |-> FALSE, slot_after |-> 0,
           stale |-> {}, mobile_driver |-> 0]

\* a driver made by the caller, not by Mobile: a session of its own
External == 10 + ncalls

\* the statement a call starts with
FirstPc(op) == IF op = "_get_driver" THEN "check" ELSE "lock"

\* a thread enters one of the operations; use_driver is handed a driver,
\* sync_with_context a behave context with or without one
KwCall(t) ==
    /\ kw[t].pc = "idle"
    /\ ncalls < MaxCalls
    /\ ncalls' = ncalls + 1
    /\ \E op \in KeywordOps, given \in BOOLEAN :
         /\ op = "use_driver" => given
         /\ op \in {"_get_driver", "reset_driver", "quit"} => ~given
         /\ kw' = [kw EXCEPT ![t] = [KwIdle EXCEPT !.op = op, !.pc = FirstPc(op),
                                                   !.arg = IF given THEN External ELSE 0,
                                                   !.stale = retired,
                                                   !.mobile_driver = kw[t].mobile_driver]]
         /\ onlyGets' = (onlyGets /\ op = "_get_driver")
    /\ UNCHANGED <<coreVars, driverVars, cfgVars, cls_driver, cls_lock, created, creates, raisedCreates, retired>>

\* threading.Lock: acquire() goes through when nobody holds the lock, the
\* holder itself included
CanAcquire(holder) == holder = Free

\* `with cls._lock:` (lines 31, 40, 48, 473, 487)
KwAcquire(t) ==
    /\ kw[t].pc = "lock"
    /\ CanAcquire(cls_lock)
    /\ cls_lock' = t
    /\ kw' = [kw EXCEPT ![t].pc = IF kw[t].op = "_get_driver" \/ kw[t].nested
                                   THEN "recheck" ELSE "body"]
    /\ UNCHANGED <<coreVars, driverVars, cfgVars, cls_driver, created, creates, raisedCreates, retired, ncalls, onlyGets>>

\* line 30: if cls._driver is None (read without the lock)
GetCheck(t) ==
    /\ kw[t].pc = "check"
    /\ kw' = [kw EXCEPT ![t].pc = IF cls_driver = 0 THEN "lock" ELSE "return",
                         ![t].saw_none = (cls_driver = 0)]
    /\ UNCHANGED <<coreVars, driverVars, cfgVars, cls_driver, cls_lock, created, creates, raisedCreates, retired, ncalls, onlyGets>>

\* the driver is created whatever the slot holds
MustCreate_Always(driver) == TRUE

\* line 32: if cls._driver is None, under the lock
MustCreate(driver) == driver = 0

\* lines 32-33: the second test; MobileFactory.create_driver() is entered, or
\* the with block left
GetRecheck(t) ==
    /\ kw[t].pc = "recheck"
    /\ IF MustCreate(cls_driver)
       THEN /\ creates' = creates + 1
            /\ kw' = [kw EXCEPT ![t].pc = "create"]
            /\ UNCHANGED cls_lock
       ELSE /\ cls_lock' = Free
            /\ kw' = [kw EXCEPT ![t].pc = "return"]
            /\ UNCHANGED creates
    /\ UNCHANGED <<coreVars, driverVars, cfgVars, cls_driver, created, raisedCreates, retired, ncalls, onlyGets>>

\* lines 33-34: create_driver() returns a session, which is stored in the
\* slot and in the thread context, or raises; the with block is left
GetCreate(t) ==
    /\ kw[t].pc = "create"
    /\ cls_lock' = Free
    /\ \/ /\ created' = created + 1
          /\ cls_driver' = created + 1
          /\ kw' = [kw EXCEPT ![t].pc = "return", ![t].mobile_driver = created + 1]
          /\ UNCHANGED raisedCreates
       \/ /\ raisedCreates' = raisedCreates + 1
          /\ kw' = [kw EXCEPT ![t].pc = "idle", ![t].ret = Raised]
          /\ UNCHANGED <<created, cls_driver>>
    /\ UNCHANGED <<coreVars, driverVars, cfgVars, creates, retired, ncalls, onlyGets>>

\* line 35: return cls._driver (read again, without the lock); inside
\* sync_with_context the value goes to behave_context.driver (line 53)
GetReturn(t) ==
    /\ kw[t].pc = "return"
    /\ kw' = [kw EXCEPT ![t] = IF @.nested
                                THEN [@ EXCEPT !.arg = cls_driver, !.pc = "release"]
                                ELSE [@ EXCEPT !.ret = cls_driver, !.pc = "idle"]]
    /\ UNCHANGED <<coreVars, driverVars, cfgVars, cls_driver, cls_lock, created, creates, raisedCreates, retired, ncalls, onlyGets>>

\* lines 40-43: use_driver(driver) under the lock
UseDriver(t) ==
    /\ kw[t].pc = "body" /\ kw[t].op = "use_driver"
    /\ cls_driver' = kw[t].arg
    /\ cls_lock' = Free
    /\ kw' = [kw EXCEPT ![t].mobile_driver = kw[t].arg, ![t].ret = kw[t].arg, ![t].pc = "idle"]
    /\ UNCHANGED <<coreVars, driverVars, cfgVars, created, creates, raisedCreates, retired, ncalls, onlyGets>>

\* lines 49-53: sync_with_context under the lock: the driver of the behave
\* context is taken over, or cls._get_driver() is called
SyncBody(t) ==
    /\ kw[t].pc = "body" /\ kw[t].op = "sync_with_context"
    /\ IF kw[t].arg # 0
       THEN /\ cls_driver' = kw[t].arg
            /\ kw' = [kw EXCEPT ![t].mobile_driver = kw[t].arg, ![t].pc = "release"]
       ELSE /\ kw' = [kw EXCEPT ![t].nested = TRUE, ![t].pc = "check"]
            /\ UNCHANGED cls_driver
    /\ UNCHANGED <<coreVars, driverVars, cfgVars, cls_lock, created, creates, raisedCreates, retired, ncalls, onlyGets>>

\* line 48, leaving the with block of sync_with_context
SyncRelease(t) ==
    /\ kw[t].pc = "release"
    /\ cls_lock' = Free
    /\ kw' = [kw EXCEPT ![t].pc = "sync_return"]
    /\ UNCHANGED <<coreVars, driverVars, cfgVars, cls_driver, created, creates, raisedCreates, retired, ncalls, onlyGets>>

\* line 54: return cls._driver
SyncReturn(t) ==
    /\ kw[t].pc = "sync_return"
    /\ kw' = [kw EXCEPT ![t].ret = cls_driver, ![t].pc = "idle"]
    /\ UNCHANGED <<coreVars, driverVars, cfgVars, cls_driver, cls_lock, created, creates, raisedCreates, retired, ncalls, onlyGets>>

\* lines 474-478 and 488-492: if cls._driver: cls._driver.quit(), whose
\* error is printed; with no driver the with block is left at once
Teardown(t) ==
    /\ kw[t].pc = "body" /\ kw[t].op \in {"reset_driver", "quit"}
    /\ IF cls_driver # 0
       THEN /\ \E quitOk \in BOOLEAN :
                 kw' = [kw EXCEPT ![t].arg = cls_driver, ![t].quitRaised = ~quitOk,
                                  ![t].pc = "finally"]
            /\ UNCHANGED cls_lock
       ELSE /\ kw' = [kw EXCEPT ![t].ret = 0, ![t].slot_after = cls_driver, ![t].pc = "idle"]
            /\ cls_lock' = Free
    /\ UNCHANGED <<coreVars, driverVars, cfgVars, cls_driver, created, creates, raisedCreates, retired, ncalls, onlyGets>>

\* the slot is cleared only when quit() worked
AfterQuit_KeptOnError(driver, quitRaised) == IF quitRaised THEN driver ELSE 0

\* lines 479-481 and 493-495: finally: cls._driver = None
AfterQuit(driver, quitRaised) == 0

\* the finally clause, then the with block is left and the call returns
TeardownFinally(t) ==
    /\ kw[t].pc = "finally"
    /\ cls_driver' = AfterQuit(cls_driver, kw[t].quitRaised)
    /\ retired' = retired \cup {kw[t].arg}
    /\ cls_lock' = Free
    /\ kw' = [kw EXCEPT ![t].ret = 0, ![t].slot_after = cls_driver', ![t].pc = "idle"]
    /\ UNCHANGED <<coreVars, driverVars, cfgVars, created, creates, raisedCreates, ncalls, onlyGets>>

\* one step of a thread inside the layer
KwStep(t) ==
    \/ KwCall(t)
    \/ KwAcquire(t)
    \/ GetCheck(t)
    \/ GetRecheck(t)
    \/ GetCreate(t)
    \/ GetReturn(t)
    \/ UseDriver(t)
    \/ SyncBody(t)
    \/ SyncRelease(t)
    \/ SyncReturn(t)
    \/ Teardown(t)
    \/ TeardownFinally(t)

NextKeyword == \E t \in FThreads : KwStep(t)

(***************************************************************************)
(* Config (orbs/config.py).                                                *)
(***************************************************************************)
\* str.upper and str.lower, letter by letter
UpperChar(c) == CASE c = "m" -> "M" [] c = "k" -> "K" [] c = "t" -> "T" [] OTHER -> c
LowerChar(c) == CASE c = "M" -> "m" [] c = "K" -> "k" [] c = "T" -> "t" [] OTHER -> c
Upper(s) == [i \in DOMAIN s |-> UpperChar(s[i])]
Lower(s) == [i \in DOMAIN s |-> LowerChar(s[i])]

\* the names of the model: every letter-casing of "m_k" and of "t"
Casings(s) == {n \in [DOMAIN s -> {"m", "M", "k", "K", "t", "T", "_"}] : Lower(n) = Lower(s)}
Names == Casings(<<"m", "_", "k">>) \cup Casings(<<"t">>)

\* None, where the values are what the environment and the files hold
Missing == <<>>

\* a mapping as the pairs it holds, in insertion order; its keys, its lookup
Keys(lines) == {lines[i][1] : i \in DOMAIN lines}
Lookup(lines, key) ==
    LET at == {i \in DOMAIN lines : lines[i][1] = key}
    IN IF at = {} THEN Missing ELSE lines[CHOOSE i \in at : \A j \in at : j <= i][2]

\* the name os.environ files a variable under
EnvKey(name) == IF posix THEN name ELSE Upper(name)

\* os.getenv(key)
Getenv(env, key) == Lookup(env, EnvKey(key))

\* load_dotenv(env_file): a variable of the file is set unless the
\* environment already holds it
RECURSIVE LoadDotenv(_, _)
LoadDotenv(env, lines) ==
    IF lines = <<>> THEN env
    ELSE LET name == EnvKey(Head(lines)[1])
         IN LoadDotenv(IF name \in Keys(env) THEN env
                       ELSE Append(env, <<name, Head(lines)[2]>>),
                       Tail(lines))

\* lines 10-17: Config.__init__ reads the properties files into a dict (a
\* key read again replaces its value) and loads the .env file
ConfigInit ==
    /\ ~cfgReady
    /\ cfgReady' = TRUE
    /\ properties' = propsFile
    /\ environ' = LoadDotenv(environ, envFile)
    /\ UNCHANGED <<coreVars, driverVars, kwVars, posix, envFile, propsFile, cfgCall>>

\* lines 82-97: the key as given, then key.upper(), then key.lower()
EnvValue(env, key) ==
    IF Getenv(env, key) # Missing THEN Getenv(env, key)
    ELSE IF key # Upper(key) /\ Getenv(env, Upper(key)) # Missing THEN Getenv(env, Upper(key))
    ELSE IF key # Lower(key) /\ Getenv(env, Lower(key)) # Missing THEN Getenv(env, Lower(key))
    ELSE Missing

\* lines 101-107: the key as given, then the first key of the dict that is
\* equal to it in lower case
PropertyValue(props, key) ==
    IF key \in Keys(props) THEN Lookup(props, key)
    ELSE LET at == {i \in DOMAIN props : Lower(props[i][1]) = Lower(key)}
         IN IF at = {} THEN Missing ELSE props[CHOOSE i \in at : \A j \in at : i <= j][2]

\* lines 79-109: Config.get(key, default)
ConfigValue(env, props, key, default) ==
    IF EnvValue(env, key) # Missing THEN EnvValue(env, key)
    ELSE IF PropertyValue(props, key) # Missing THEN PropertyValue(props, key)
    ELSE default

\* no Config.get call made yet
NoConfigCall == [key |-> <<>>, result |-> Missing]

\* Config.get called with a key and no default
ConfigGet ==
    /\ cfgReady
    /\ \E key \in Names :
         cfgCall' = [key |-> key, result |-> ConfigValue(environ, properties, key, Missing)]
    /\ UNCHANGED <<coreVars, driverVars, kwVars, posix, environ, envFile, propsFile, properties, cfgReady>>

NextConfig == ConfigInit \/ ConfigGet

\* the hooks that raise: none, or one of them
RaisingChoices == {{}} \cup {{h} : h \in AllHooks}

\* a POSIX process with an empty environment and no Config object
NoConfig ==
    /\ posix = TRUE
    /\ environ = <<>> /\ envFile = <<>> /\ propsFile = <<>>
    /\ properties = <<>> /\ cfgReady = FALSE
    /\ cfgCall = NoConfigCall

\* no driver factory was called, no screenshot taken
NoDriverCalls ==
    /\ mob = MobIdle /\ factoryRan = {}
    /\ screenshots = [t \in Threads |-> ScreenshotsNone]
    /\ drivers = {}
    /\ bcall = NoBrowserCall
    /\ files = {} /\ sidecars = {}
    /\ shot = NoShot /\ shotIn = {}
    /\ relWrites = EmptyBag

\* the Mobile class as loaded: no driver, the lock free, no call made
NoKeywordCalls ==
    /\ cls_driver = 0 /\ cls_lock = Free
    /\ kw = [t \in FThreads |-> KwIdle]
    /\ created = 0 /\ creates = 0 /\ raisedCreates = 0
    /\ retired = {}
    /\ ncalls = 0 /\ onlyGets = TRUE

\* no driver factory was called, no screenshot taken, no Config made, the
\* Mobile layer unused
NoFactoryCalls == NoDriverCalls /\ NoConfig /\ NoKeywordCalls

\* the driver factories at rest in a project with Appium 3 set up
NoFactory ==
    /\ NoFactoryCalls
    /\ appium = [server |-> TRUE, tools |-> TRUE, connected |-> TRUE, major |-> 3]
    /\ retryArgs = {2}
    /\ serverErrors = ErrorTexts
    /\ browserCfg = Unset
    /\ report = [t \in Threads |-> FALSE]
    /\ helperInstalled = TRUE

\* the runner before run_suite_collection is called
QuietRunner ==
    /\ mpc = "start" /\ mi = 1 /\ mexc = "none"
    /\ queue = <<>> /\ fut = [i \in 1..MaxEntries |-> "none"]
    /\ nthreads = 0 /\ idle = 0
    /\ th = [t \in Threads |-> IdleFrame]
    /\ runlog = [t \in Threads |-> <<>>]
    /\ loaded = None
    /\ wrote = [t \in Threads |-> {}]
    /\ started = <<>>
    /\ deviceName = "cfgdev"

\* the state before run_suite_collection is called
Quiet ==
    /\ QuietRunner
    /\ ctx = [t \in Threads |-> [k \in ContextKeys |-> Unset]]
    /\ NoFactory

\* a project with listeners whose collection runs two suites one after the
\* other: every suite file, every raising hook
InitSuites ==
    /\ Quiet
    /\ collExists = TRUE /\ method = "sequential" /\ max_inst = 1
    /\ listeners = TRUE /\ depsOk = TRUE
    /\ \E first \in {"A", "B"} :
         /\ entries = IF first = "A"
                      THEN <<DictEntry("A", "android", "dev1"), BareEntry("B")>>
                      ELSE <<BareEntry("B"), BareEntry("A")>>
         /\ delay = IF first = "A" THEN 0 ELSE 1
    /\ \E fa \in SuiteFiles, fb \in {OkFile(<<>>), OkFile(<<<<"d", "\\", "f">>, <<"p">>>>), Unreadable} :
         suiteFile = [s \in SuiteIds |-> IF s = "A" THEN fa ELSE fb]
    /\ raising \in RaisingChoices

\* the sequential half of run_suite_collection and the suites it runs
NextSuites ==
    \/ CollectionStart
    \/ SequentialCall
    \/ SequentialReturn
    \/ SequentialSleep
    \/ EntryStep(Main)

Spec == InitSuites /\ [][NextSuites]_vars

\* every collection of up to MaxEntries entries, sequential or parallel, in a
\* project without listeners, and the short ones with a launch delay in a
\* project with listeners and no mobile tooling; suite A passes, suite B
\* cannot be opened
InitCollections ==
    /\ Quiet
    /\ raising = {}
    /\ \E m \in {"sequential", "parallel"}, k \in 1..MaxInst :
         /\ method = m /\ max_inst = k
         /\ m = "sequential" => k = 1
    /\ \/ /\ collExists = TRUE /\ delay = 0 /\ depsOk = TRUE /\ listeners = FALSE
          /\ suiteFile = [s \in SuiteIds |-> IF s = "A" THEN OkFile(<<>>) ELSE Unreadable]
          /\ entries \in {es \in SeqsUpTo(EntryPool \ {BareEntry("A")}, MaxEntries) :
                            Cardinality({i \in DOMAIN es : es[i].testsuite = "B"}) <= 1}
       \/ /\ collExists \in BOOLEAN /\ delay = 1 /\ depsOk = FALSE /\ listeners = TRUE
          /\ suiteFile = [s \in SuiteIds |-> IF s = "A" THEN OkFile(<<<<"p">>>>) ELSE Unreadable]
          /\ entries \in SeqsUpTo(EntryPool, 2)

\* run_suite_collection with its pool
Next ==
    \/ NextSuites
    \/ Submit
    \/ SubmitSleep
    \/ FutureResult
    \/ PoolShutdown
    \/ \E w \in Workers : WorkerPick(w) \/ WorkerFinish(w) \/ EntryStep(w)

CollSpec == InitCollections /\ [][Next]_vars

\* the entries a collection file may list: a bare path, a mapping with a
\* mobile or a web platform, with or without device_id, and a mapping whose
\* platform is none of the enumerated ones
PlatformEntries ==
    {BareEntry("A"), DictEntry("A", "android", "dev1"), DictEntry("A", "chrome", None),
     DictEntry("B", "tizen", "dev2")}

\* every collection of up to MaxEntries such entries, run one after the other
\* or by a pool of two threads launched one second apart; suite A holds one
\* passing case, suite B none
InitEntries ==
    /\ Quiet
    /\ collExists = TRUE
    /\ raising = {}
    /\ suiteFile = [s \in SuiteIds |-> IF s = "A" THEN OkFile(<<<<"p">>>>) ELSE OkFile(<<>>)]
    /\ \/ /\ method = "sequential" /\ max_inst = 1
          /\ delay \in {0, 1} /\ depsOk \in BOOLEAN /\ listeners \in BOOLEAN
          /\ entries \in SeqsUpTo(PlatformEntries, MaxEntries)
       \/ /\ method = "parallel" /\ max_inst = 2
          /\ delay = 1 /\ depsOk = TRUE /\ listeners = FALSE
          /\ entries \in SeqsUpTo(PlatformEntries, 2)

EntrySpec == InitEntries /\ [][Next]_vars

\* a project with listeners whose collection runs suite A (one passing case,
\* on a mobile platform) and suite B (no case) in a pool of two threads,
\* launched one second apart, in either order
InitHooks ==
    /\ Quiet
    /\ collExists = TRUE /\ method = "parallel" /\ max_inst = 2 /\ delay = 1
    /\ listeners = TRUE /\ depsOk = TRUE /\ raising = {}
    /\ suiteFile = [s \in SuiteIds |-> IF s = "A" THEN OkFile(<<<<"p">>>>) ELSE OkFile(<<>>)]
    /\ entries \in {<<DictEntry("A", "android", "dev1"), BareEntry("B")>>,
                    <<BareEntry("B"), DictEntry("A", "android", "dev1")>>}

\* the parallel half of run_suite_collection and the suites it runs
NextPool ==
    \/ CollectionStart
    \/ Submit
    \/ SubmitSleep
    \/ FutureResult
    \/ PoolShutdown
    \/ \E w \in Workers : WorkerPick(w) \/ WorkerFinish(w) \/ EntryStep(w)

HookSpec == InitHooks /\ [][NextPool]_vars

(***************************************************************************)
(* Initial states and specifications of the driver factories.              *)
(***************************************************************************)
\* run_suite_collection is not used
NoCollection ==
    /\ collExists = FALSE /\ method = "sequential" /\ max_inst = 1 /\ delay = 0
    /\ entries = <<>>
    /\ suiteFile = [s \in SuiteIds |-> Unreadable]
    /\ listeners = FALSE /\ raising = {} /\ depsOk = TRUE

\* the context of thread Main holds this platform, the other threads none
PlatformOfMain(p) ==
    ctx = [t \in Threads |-> [k \in ContextKeys |->
             IF t = Main /\ k = "platform" THEN p ELSE Unset]]

\* create_driver with every retry_count up to MaxRetry, with and without the
\* Appium server, the tools of the cleanup, the helper packages
InitMobile ==
    /\ QuietRunner /\ NoCollection /\ NoFactoryCalls
    /\ \E p \in {Unset, "emulator-5554"} : PlatformOfMain(p)
    /\ \E server, tools \in BOOLEAN, major \in {2, 3} :
         /\ server \/ (tools /\ major = 3)
         /\ appium = [server |-> server, tools |-> tools, connected |-> TRUE, major |-> major]
    /\ helperInstalled \in BOOLEAN
    /\ retryArgs = 0..MaxRetry
    /\ serverErrors = ErrorTexts
    /\ browserCfg = Unset
    /\ report = [t \in Threads |-> FALSE]

MobileSpec == InitMobile /\ [][NextMobile]_vars

\* the browser factory and its wrapped drivers used by two threads: thread
\* Main with a platform in its context or none, the other thread without
InitBrowser ==
    /\ QuietRunner /\ NoCollection /\ NoFactoryCalls
    /\ \E p \in {Unset, None, "Chrome", "Opera"} : PlatformOfMain(p)
    /\ appium = [server |-> TRUE, tools |-> TRUE, connected |-> TRUE, major |-> 3]
    /\ helperInstalled = TRUE
    /\ retryArgs = {0}
    /\ serverErrors = {}
    /\ browserCfg \in {Unset, "Firefox", "edge"}
    /\ report = [t \in Threads |-> FALSE]

\* save_screenshot of one relative name
BrowserScreenshot ==
    \E t \in FThreads, captureOk \in BOOLEAN :
      SaveScreenshot(t, RelativePath(<<"shot", ".png">>), captureOk)

NextBrowser ==
    \/ \E t \in FThreads : BrowserCreateDriver(t)
    \/ BrowserScreenshot

BrowserSpec == InitBrowser /\ [][NextBrowser]_vars

\* one thread that takes browser screenshots under every path, with and
\* without a report in its context, in a directory that may hold files
InitPaths ==
    /\ QuietRunner /\ NoCollection
    /\ mob = MobIdle /\ factoryRan = {}
    /\ screenshots = [t \in Threads |-> ScreenshotsNone]
    /\ drivers = {}
    /\ bcall = NoBrowserCall
    /\ sidecars = {}
    /\ shot = NoShot /\ shotIn = {}
    /\ relWrites = EmptyBag
    /\ NoConfig /\ NoKeywordCalls
    /\ PlatformOfMain("Chrome")
    /\ appium = [server |-> TRUE, tools |-> TRUE, connected |-> TRUE, major |-> 3]
    /\ helperInstalled = TRUE
    /\ retryArgs = {0}
    /\ serverErrors = {}
    /\ browserCfg = Unset
    /\ \E r \in BOOLEAN :
         /\ report = [t \in Threads |-> r /\ t = Main]
         /\ files \in {{}, {AbsolutePath(ScreenshotsDir(r), <<"shot", ".png">>)},
                       {AbsolutePath(ScreenshotsDir(r), <<"shot", "_", "1", ".png">>)}}

\* save_screenshot with every path and outcome
PathScreenshot ==
    \E path \in ShotPaths, captureOk \in BOOLEAN : SaveScreenshot(Main, path, captureOk)

NextPaths ==
    \/ BrowserCreateDriver(Main)
    \/ PathScreenshot

PathSpec == InitPaths /\ [][NextPaths]_vars

\* the entries of a mobile collection: a bare path, a mapping with and one
\* without device_id
DeviceEntries ==
    {BareEntry("A"), DictEntry("A", "android", "dev1"), DictEntry("A", "android", None)}

\* a sequential collection of up to two such entries; suite A holds one
\* passing case, which creates its mobile session; the Appium server answers
\* without errors
InitDevice ==
    /\ QuietRunner /\ NoFactoryCalls
    /\ ctx = [t \in Threads |-> [k \in ContextKeys |-> Unset]]
    /\ collExists = TRUE /\ method = "sequential" /\ max_inst = 1
    /\ delay \in {0, 1} /\ depsOk = TRUE /\ listeners \in BOOLEAN /\ raising = {}
    /\ suiteFile = [s \in SuiteIds |-> IF s = "A" THEN OkFile(<<<<"p">>>>) ELSE Unreadable]
    /\ entries \in SeqsUpTo(DeviceEntries, 2)
    /\ appium = [server |-> TRUE, tools |-> TRUE, connected |-> TRUE, major |-> 3]
    /\ helperInstalled = TRUE
    /\ retryArgs = {2}
    /\ serverErrors = {}
    /\ browserCfg = Unset
    /\ report = [t \in Threads |-> FALSE]

\* the case module calls MobileFactory.create_driver() while it runs
CaseCreateDriver ==
    /\ th[Main].pc = "run_case"
    /\ \E r \in retryArgs : MobileCreateDriver(Main, r)

\* the collection runs while no create_driver call is under way; a case
\* waits for the session it asked for
NextDevice ==
    \/ NoCreateInProgress /\ NextSuites
    \/ CaseCreateDriver
    \/ CreateSession
    \/ SetupScreenshotWrapper

DeviceSpec == InitDevice /\ [][NextDevice]_vars

\* the wrapped drivers of both kinds used by two threads, both of which
\* create browser drivers and one mobile drivers; the Appium server answers
\* without errors
InitShots ==
    /\ QuietRunner /\ NoCollection /\ NoFactoryCalls
    /\ PlatformOfMain("Chrome")
    /\ appium = [server |-> TRUE, tools |-> TRUE, connected |-> TRUE, major |-> 3]
    /\ helperInstalled = TRUE
    /\ retryArgs = {0}
    /\ serverErrors = {}
    /\ browserCfg = Unset
    /\ report = [t \in Threads |-> FALSE]

NextShots ==
    \/ \E r \in retryArgs : MobileCreateDriver(1, r)
    \/ CreateSession
    \/ SetupScreenshotWrapper
    \/ \E t \in FThreads : BrowserCreateDriver(t)
    \/ ScreenshotCall

ShotSpec == InitShots /\ [][NextShots]_vars

\* mobile drivers created by thread Main and used by two threads
NextMobileShots ==
    \/ \E r \in retryArgs : MobileCreateDriver(Main, r)
    \/ CreateSession
    \/ SetupScreenshotWrapper
    \/ MobileScreenshot

MobileShotSpec == InitShots /\ [][NextMobileShots]_vars

(***************************************************************************)
(* Initial states and specification of Config.                             *)
(***************************************************************************)
\* a variable or a property, its value telling where it was defined
Line(source, name) == <<name, <<source, name>>>>

\* the mappings of at most n names, every one defined by `source`
LinesUpTo(source, names, n) ==
    {<<>>} \cup {<<Line(source, a)>> : a \in names}
           \cup (IF n < 2 THEN {}
                 ELSE {<<Line(source, ab[1]), Line(source, ab[2])>> :
                         ab \in {p \in names \X names : p[1] # p[2]}})

\* the names os.environ can hold
EnvNames == {EnvKey(n) : n \in Names}

\* every environment of up to two variables in any letter-casing, an .env
\* file and a properties file of up to one line each, on either platform
InitConfig ==
    /\ QuietRunner /\ NoCollection
    /\ ctx = [t \in Threads |-> [k \in ContextKeys |-> Unset]]
    /\ NoDriverCalls
    /\ appium = [server |-> TRUE, tools |-> TRUE, connected |-> TRUE, major |-> 3]
    /\ helperInstalled = TRUE /\ retryArgs = {2} /\ serverErrors = {}
    /\ browserCfg = Unset /\ report = [t \in Threads |-> FALSE]
    /\ posix \in BOOLEAN
    /\ environ \in LinesUpTo("env", EnvNames, 2)
    /\ envFile \in LinesUpTo("file", Names, 1)
    /\ propsFile \in LinesUpTo("props", Names, 1)
    /\ properties = <<>> /\ cfgReady = FALSE
    /\ cfgCall = NoConfigCall
    /\ NoKeywordCalls

ConfigSpec == InitConfig /\ [][NextConfig]_vars

(***************************************************************************)
(* Initial states and specification of the Mobile keyword layer.           *)
(***************************************************************************)
\* two threads use the Mobile class of a fresh process
InitKeyword == QuietRunner /\ NoCollection /\ PlatformOfMain(Unset) /\ NoFactory

KeywordSpec == InitKeyword /\ [][NextKeyword]_vars

\* every thread that can take a step takes one in the end
KeywordFairSpec == KeywordSpec /\ \A t \in FThreads : WF_vars(KwStep(t))

(***************************************************************************)
(* Properties of run_suite.                                                *)
(***************************************************************************)
UpTo(n) == [i \in 1..n |-> i]
Flatten(ss) ==
    LET F[i \in 0..Len(ss)] == IF i = 0 THEN <<>> ELSE F[i - 1] \o ss[i]
    IN F[Len(ss)]

\* the calls of one hook at one stage, in the order they were made
HookCalls(log, stage, hook) ==
    SelectSeq(log, LAMBDA e : e.ev = "hook" /\ e.stage = stage /\ e.hook = hook)

\* the cases run, in order
CasesRun(log) ==
    LET runs == SelectSeq(log, LAMBDA e : e.ev = "case")
    IN [i \in DOMAIN runs |-> runs[i].case]

\* the case list of a suite as run_suite hands it on: normalised paths
NormalCases(suite) ==
    [i \in DOMAIN suiteFile[suite].cases |-> NormalizedPath(suiteFile[suite].cases[i])]

\* a suite file that holds a list of case paths
WellFormed(suite) ==
    suiteFile[suite].kind = "ok" /\ BadItem \notin Range(suiteFile[suite].cases)

\* the hooks registered for a stage while a suite runs: global, then its own
Registered(suite, stage) ==
    IF listeners THEN GlobalHooks(stage) \o SuiteHooks(suite, stage) ELSE <<>>

\* the status a case must get: "passed" exactly when its run() returns
ExpectedStatus(case) == IF case[Len(case)] = "p" THEN "passed" ELSE "failed"

\* C1: for a suite with N cases, every registered before_test_case hook and
\* every registered after_test_case hook is called exactly N times by
\* run_suite, once per case and in case-list order, whatever mix of cases pass
\* or fail (while the suite runs: once for each case so far, in order).
C1_CaseHooksOncePerCase ==
    \A t \in Threads :
      (InRunSuite(th[t].pc) \/ Exited(th[t].pc)) /\ th[t].suite # None =>
        \A stage \in {"before_test_case", "after_test_case"} :
          \A i \in DOMAIN Registered(th[t].suite, stage) :
            LET hook == Registered(th[t].suite, stage)[i]
                calls == HookCalls(runlog[t], stage, hook)
                n == Len(suiteFile[th[t].suite].cases)
            IN /\ Len(calls) <= n
               /\ [k \in DOMAIN calls |-> calls[k].ci] = UpTo(Len(calls))
               /\ \A k \in DOMAIN calls :
                    calls[k].args # <<>> =>
                      calls[k].args[1] = [case |-> NormalCases(th[t].suite)[k]]
               /\ th[t].pc = "exit_ok" => Len(calls) = n

\* a suite of two cases, one failing and one passing, ran to its end with two
\* before_test_case hooks registered
C1_Witness ==
    /\ th[Main].pc = "exit_ok"
    /\ th[Main].suite = "A"
    /\ suiteFile["A"].cases = <<<<"d", "\\", "f">>, <<"p">>>>
    /\ Len(HookCalls(runlog[Main], "before_test_case", "a_btc")) = 2
    /\ Len(HookCalls(runlog[Main], "after_test_case", "g_atc0")) = 2

\* C2: a case whose execution raises gets the record {status: "failed", name:
\* case path}, one that returns gets "passed"; a failing case does not stop the
\* suite: every case of the list is executed, in order, and the
\* after_test_case hooks of each case receive that case's own record.
C2_FailedCaseRecordedSuiteGoesOn ==
    \A t \in Threads :
      LET f == th[t] IN
        (InRunSuite(f.pc) \/ Exited(f.pc)) /\ f.suite # None =>
          /\ f.pc \in {"after_test_case", "teardown_test_case"} =>
               f.data = [status |-> ExpectedStatus(f.case), name |-> f.case]
          /\ \A k \in DOMAIN runlog[t] :
               LET e == runlog[t][k] IN
                 e.ev = "hook" /\ e.stage = "after_test_case" /\ e.args # <<>> =>
                   LET c == NormalCases(f.suite)[e.ci]
                   IN e.args = <<[case |-> c], [status |-> ExpectedStatus(c), name |-> c]>>
          /\ IsPrefix(CasesRun(runlog[t]), NormalCases(f.suite))
          /\ f.pc = "exit_ok" => CasesRun(runlog[t]) = NormalCases(f.suite)

\* the first case failed, the second ran and passed, and the after_test_case
\* hook was handed one record for each
C2_Witness ==
    /\ th[Main].pc = "exit_ok"
    /\ suiteFile[th[Main].suite].cases = <<<<"d", "\\", "f">>, <<"p">>>>
    /\ LET calls == HookCalls(runlog[Main], "after_test_case", "g_atc")
       IN /\ Len(calls) = 2
          /\ calls[1].args[2] = [status |-> "failed", name |-> <<"d", "/", "f">>]
          /\ calls[2].args[2] = [status |-> "passed", name |-> <<"p">>]

\* the hook calls of a stage, as <<stage, hook>> steps
StageSteps(suite, stage) ==
    [i \in DOMAIN Registered(suite, stage) |-> <<stage, Registered(suite, stage)[i]>>]

\* the steps of one case: its four stages around the case itself
CaseSteps(suite, case) ==
    StageSteps(suite, "setup_test_case") \o StageSteps(suite, "before_test_case")
    \o <<<<"case", case>>>>
    \o StageSteps(suite, "after_test_case") \o StageSteps(suite, "teardown_test_case")

\* the fixed order of a whole run_suite call
ExpectedSteps(suite) ==
    StageSteps(suite, "before_test_suite") \o StageSteps(suite, "setup")
    \o Flatten([i \in DOMAIN NormalCases(suite) |-> CaseSteps(suite, NormalCases(suite)[i])])
    \o StageSteps(suite, "teardown") \o StageSteps(suite, "after_test_suite")

\* the hook calls and case runs a thread made, as steps, in order
StepsMade(log) ==
    LET made == SelectSeq(log, LAMBDA e : e.ev \in {"hook", "case"})
    IN [i \in DOMAIN made |-> IF made[i].ev = "hook"
                              THEN <<made[i].stage, made[i].hook>>
                              ELSE <<"case", made[i].case>>]

\* C3: within one run_suite call the stages fire in the fixed order
\* before_test_suite, setup, then per case setup_test_case, before_test_case,
\* the case, after_test_case, teardown_test_case, then teardown and
\* after_test_suite, the hooks of a stage in the order of the enabled list.
C3_StagesInFixedOrder ==
    \A t \in Threads :
      (InRunSuite(th[t].pc) \/ Exited(th[t].pc)) /\ th[t].suite # None =>
        /\ IsPrefix(StepsMade(runlog[t]), ExpectedSteps(th[t].suite))
        /\ th[t].pc = "exit_ok" => StepsMade(runlog[t]) = ExpectedSteps(th[t].suite)

\* a suite with hooks at all eight stages ran two cases to its end
C3_Witness ==
    /\ th[Main].pc = "exit_ok"
    /\ th[Main].suite = "A"
    /\ Len(suiteFile["A"].cases) = 2
    /\ \A stage \in StageSet : \E k \in DOMAIN runlog[Main] :
         runlog[Main][k].ev = "hook" /\ runlog[Main][k].stage = stage

\* the number of hook calls a whole run_suite call makes
ExpectedHookCalls(suite) ==
    Len(SelectSeq(ExpectedSteps(suite), LAMBDA st : st[1] # "case"))

\* C4: a hook that raises, at any stage, does not leave run_suite: the other
\* hooks of the stage, the case and the later stages still run, and the
\* status recorded for a case is the one its own execution gives.
C4_HookErrorsIsolated ==
    \A t \in Threads :
      Exited(th[t].pc) /\ th[t].suite # None /\ WellFormed(th[t].suite) =>
        /\ th[t].pc = "exit_ok"
        /\ Len(SelectSeq(runlog[t], LAMBDA e : e.ev = "hook")) = ExpectedHookCalls(th[t].suite)
        /\ CasesRun(runlog[t]) = NormalCases(th[t].suite)
        /\ \A k \in DOMAIN runlog[t] :
             LET e == runlog[t][k] IN
               e.ev = "hook" /\ Len(e.args) = 2 /\ e.stage # "setup_test_case" =>
                 e.args[2].status = ExpectedStatus(e.args[1].case)

\* the first before_test_case hook raised for a case that then ran and
\* passed, and the second hook of the stage was still called
C4_Witness ==
    /\ th[Main].pc = "exit_ok"
    /\ raising = {"g_btc"}
    /\ \E k \in DOMAIN runlog[Main] : runlog[Main][k] = [ev |-> "hook_error", hook |-> "g_btc"]
    /\ Len(HookCalls(runlog[Main], "before_test_case", "a_btc")) >= 1
    /\ \E k \in DOMAIN runlog[Main] :
         /\ runlog[Main][k].ev = "hook"
         /\ runlog[Main][k].stage = "after_test_case"
         /\ runlog[Main][k].hook = "g_atc"
         /\ runlog[Main][k].args[2].status = "passed"

\* the hooks a thread called during its current run_suite call
HooksFired(log) == {log[k].hook : k \in {j \in DOMAIN log : log[j].ev = "hook"}}

\* C5: when a suite is run after another on the same process, no suite-local
\* hook of the earlier suite fires during the later one: the hooks fired for a
\* suite are the global hooks followed by its own suite-local hooks only.
C5_NoSuiteLocalLeak ==
    \A t \in Threads :
      (InRunSuite(th[t].pc) \/ Exited(th[t].pc)) /\ th[t].suite # None =>
        /\ HooksFired(runlog[t]) \subseteq AllGlobalHooks \cup AllSuiteHooks(th[t].suite)
        /\ \A stage \in StageSet :
             LET at == SelectSeq(runlog[t], LAMBDA e : e.ev = "hook" /\ e.stage = stage /\ e.ci <= 1)
             IN IsPrefix([k \in DOMAIN at |-> at[k].hook],
                         GlobalHooks(stage) \o SuiteHooks(th[t].suite, stage))
        /\ th[t].pc = "exit_ok" =>
             {h \in HooksFired(runlog[t]) : h \notin AllGlobalHooks}
               = UNION {Range(SuiteHooks(th[t].suite, stage)) :
                          stage \in {"setup", "teardown"}
                            \cup (IF suiteFile[th[t].suite].cases = <<>> THEN {}
                                  ELSE StageSet)}

\* suite B ran to its end after suite A, whose suite-local hooks had fired,
\* and B's own setup hook fired
C5_Witness ==
    /\ th[Main].pc = "exit_ok"
    /\ th[Main].suite = "B"
    /\ mi = 2
    /\ entries[1].testsuite = "A"
    /\ "b_setup" \in HooksFired(runlog[Main])

(***************************************************************************)
(* Properties of run_suite_collection.                                     *)
(***************************************************************************)
\* the threads inside run_suite
Running == {t \in Threads : InRunSuite(th[t].pc)}

\* the entries handed to the pool so far
Submitted == {i \in 1..MaxEntries : fut[i] # "none"}

\* the call is over: it returned or raised
CallOver == mpc \in {"returned", "raised"}

\* whether _run_entry raises for an entry of this project: its suite file
\* cannot be opened, or its mobile tooling is missing
EntryFails(e) ==
    \/ suiteFile[e.testsuite].kind # "ok"
    \/ ~e.bare /\ e.platform \in {"android", "ios"} /\ ~depsOk

\* C6: with execution_method "parallel" and max_concurrent_instances k > 1,
\* never more than k entries are inside run_suite, the entries are submitted
\* and started in collection order, and the call returns or raises only after
\* every submitted entry has finished.
C6_PoolBoundedOrderedJoined ==
    method = "parallel" /\ max_inst > 1 /\ collExists =>
      /\ Cardinality(Running) <= max_inst
      /\ Cardinality({t \in Threads : InRunEntry(th[t].pc)}) <= max_inst
      /\ \E m \in 0..NumEntries : Submitted = 1..m
      /\ started \o queue = UpTo(Len(started) + Len(queue))
      /\ Len(started) + Len(queue) = Cardinality(Submitted)
      /\ CallOver =>
           /\ Submitted = 1..NumEntries
           /\ \A i \in Submitted : fut[i] \in {"done", "failed"}
           /\ \A t \in Threads : th[t].pc = "idle"

\* two entries are inside run_suite on two pool threads while a third,
\* already submitted, waits in the queue
C6_Witness ==
    /\ method = "parallel" /\ max_inst = 2
    /\ Cardinality(Running) = 2
    /\ queue = <<3>>
    /\ fut[3] = "pending"

\* the first entry of the collection whose _run_entry raises (0: none does)
FirstFailing ==
    LET failing == {i \in 1..NumEntries : EntryFails(entries[i])}
    IN IF failing = {} THEN 0 ELSE CHOOSE i \in failing : \A j \in failing : i <= j

\* the device_id _run_entry stores for an entry
DeviceOf(e) == IF e.bare THEN None ELSE e.device_id

\* what a sequential run is: no pool thread, the entries one at a time on
\* the calling thread in collection order up to the first that raises, and
\* only the calling thread's context written, once per entry started
SequentialBehaviour ==
    /\ nthreads = 0 /\ queue = <<>> /\ Submitted = {}
    /\ mpc \in {"start", "seq", "seq_wait", "seq_sleep", "returned", "raised"}
    /\ \A w \in Workers : th[w].pc = "idle" /\ wrote[w] = {} /\ runlog[w] = <<>>
    /\ started = UpTo(Len(started))
    /\ InRunEntry(th[Main].pc) => th[Main].entry = Len(started) /\ mpc = "seq_wait"
    /\ LET written == IF th[Main].pc = "set_ctx" THEN Len(started) - 1 ELSE Len(started)
       IN /\ wrote[Main] = {DeviceOf(entries[i]) : i \in 1..written}
          /\ written > 0 => ctx[Main]["device_id"] = DeviceOf(entries[written])
    /\ CallOver /\ collExists =>
         /\ Len(started) = IF FirstFailing = 0 THEN NumEntries ELSE FirstFailing
         /\ mpc = "raised" <=> FirstFailing # 0

\* C7: "parallel" with max_concurrent_instances = 1 behaves exactly like
\* "sequential": in both, the entries run one at a time on the calling thread
\* in collection order, with the same run_suite calls and context writes.
C7_ParallelOneIsSequential ==
    (method = "sequential" \/ (method = "parallel" /\ max_inst = 1)) => SequentialBehaviour

\* a "parallel" collection of two entries with one instance ran both on the
\* calling thread and returned
C7_Witness ==
    /\ method = "parallel" /\ max_inst = 1
    /\ mpc = "returned"
    /\ started = <<1, 2>>
    /\ wrote[Main] # {}

\* C8: in parallel mode an exception that escapes run_suite for one entry
\* does not stop the others: every entry is started and runs to its end, and
\* the failure reaches the caller only when that entry's future is resolved.
C8_ParallelFailureLeavesSiblings ==
    method = "parallel" /\ max_inst > 1 /\ collExists =>
      /\ mexc # "none" =>
           /\ mpc \in {"shutdown", "raised"}
           /\ fut[mi] = "failed"
           /\ \A i \in 1..(mi - 1) : fut[i] = "done"
      /\ mpc \in {"submit", "sleep"} => mexc = "none"
      /\ CallOver =>
           /\ Len(started) = NumEntries
           /\ \A i \in 1..NumEntries :
                fut[i] = IF EntryFails(entries[i]) THEN "failed" ELSE "done"
           /\ mpc = "raised" <=> \E i \in 1..NumEntries : EntryFails(entries[i])

\* the first of three entries failed, the call raised, and the two entries
\* after it had run to their end
C8_Witness ==
    /\ method = "parallel" /\ max_inst = 2
    /\ mpc = "raised"
    /\ NumEntries = 3
    /\ fut = (1 :> "failed" @@ 2 :> "done" @@ 3 :> "done")

\* C9: in sequential mode a fatal error escaping run_suite for one entry
\* aborts only that entry: the entries listed after it are still run.
C9_SequentialFailureLeavesSiblings ==
    method = "sequential" /\ collExists /\ CallOver =>
      Len(started) = NumEntries

\* C10: the context store is per thread: what get_context returns in a thread
\* is a value that thread stored itself, or the supplied default when the
\* thread never set the key; no thread reads another thread's device_id.
C10_ContextPerThread ==
    \A t \in Threads :
      /\ ctx[t]["device_id"] \in wrote[t] \cup {Unset}
      /\ \A k \in ContextKeys :
           (k = "device_id" => wrote[t] = {}) =>
             get_context(ctx, t, k, "default") = "default"
      /\ wrote[t] # {} => get_context(ctx, t, "device_id", "default") \in wrote[t]
      /\ th[t].seen # Unset => th[t].seen \in wrote[t]
      /\ InRunSuite(th[t].pc) /\ ~EntryOf(t).bare =>
           get_context(ctx, t, "device_id", "default") = EntryOf(t).device_id

\* two suites run at the same time on two pool threads, each with its own
\* device_id in its context, one of them read by check_dependencies
C10_Witness ==
    \E t, u \in Workers :
      /\ InRunSuite(th[t].pc) /\ InRunSuite(th[u].pc)
      /\ ctx[t]["device_id"] = "dev1" /\ ctx[u]["device_id"] = "dev2"
      /\ th[t].seen = "dev1"
      /\ get_context(ctx, Main, "device_id", "default") = "default"

\* the device_id a thread's context must hold while it runs an entry
EntryDevice(e) == IF e.bare THEN None ELSE e.device_id

\* C11: while run_suite executes for a collection entry, the running
\* thread's context key device_id equals that entry's device_id, or None when
\* the entry is a bare path or has no device_id; a device_id set for an
\* earlier entry run on the same thread is never still visible to a later one.
C11_DeviceIdOfCurrentEntry ==
    \A t \in Threads :
      InRunSuite(th[t].pc) =>
        /\ ctx[t]["device_id"] = EntryDevice(EntryOf(t))
        /\ get_context(ctx, t, "device_id", "default") = EntryDevice(EntryOf(t))

\* a thread that stored dev1 for an earlier entry is inside run_suite for a
\* later entry without device_id, a mapping or a bare path
C11_Witness ==
    /\ \E t \in Threads :
         /\ InRunSuite(th[t].pc) /\ th[t].entry > 1
         /\ "dev1" \in wrote[t]
         /\ ~EntryOf(t).bare /\ EntryOf(t).device_id = None
         /\ ctx[t]["device_id"] = None
    \/ \E t \in Workers :
         /\ InRunSuite(th[t].pc)
         /\ "dev1" \in wrote[t]
         /\ EntryOf(t).bare
         /\ ctx[t]["device_id"] = None

\* the platforms the project enumerates
KnownPlatforms == PLATFORM_LIST.mobile \cup PLATFORM_LIST.web

\* C12: a collection entry whose platform is present but is not one of the
\* enumerated mobile or web platforms is rejected as a configuration error:
\* run_suite is not executed for that entry.
C12_UnknownPlatformRejected ==
    \A t \in Threads :
      InRunSuite(th[t].pc) /\ ~EntryOf(t).bare /\ EntryOf(t).platform # None =>
        EntryOf(t).platform \in KnownPlatforms

(***************************************************************************)
(* Properties of MobileFactory.create_driver.                              *)
(***************************************************************************)
\* the create_driver call is over
CallEnded == mob.pc \in {"returned", "raised"}

\* attempts were made and none of them gave a session that passed its probe
AllAttemptsFailed ==
    /\ Len(mob.hist) > 0
    /\ \A i \in DOMAIN mob.hist : mob.hist[i].out # "created"

\* C13: create_driver with retry_count = r makes at most r+1 session-creation
\* attempts, and if every one of them fails (creation error or failed
\* liveness probe, whatever the error text) the call ends by raising an error
\* that carries the last underlying error; it never returns a session then.
C13_ExhaustedRetriesRaise ==
    /\ Len(mob.hist) <= mob.retry_count + 1
    /\ CallEnded /\ AllAttemptsFailed =>
         /\ mob.pc = "raised"
         /\ mob.error = [type |-> "Exception", last |-> mob.hist[Len(mob.hist)].text]

\* C14: every session create_driver returns passed the liveness probe made
\* right after it was created; a session whose probe failed is quit, counted
\* as a failed attempt, and is never the session that is returned.
C14_ReturnedSessionPassedProbe ==
    /\ \A i \in DOMAIN mob.hist :
         mob.hist[i].out = "probe_error" =>
           /\ mob.hist[i].quit # "no"
           /\ mob.pc = "returned" => mob.driver # mob.hist[i].sid
    /\ mob.pc = "returned" =>
         /\ mob.driver \in DOMAIN mob.hist
         /\ mob.hist[mob.driver].out = "created"

\* the failed attempts that another attempt followed, or is about to follow
Retried ==
    {i \in DOMAIN mob.hist : i < Len(mob.hist) \/ mob.pc = "attempt"}

\* the restarts made after the attempts of the call, all together
RestartsMade ==
    LET F[i \in 0..Len(mob.hist)] ==
          IF i = 0 THEN 0 ELSE F[i - 1] + mob.hist[i].restarted
    IN F[Len(mob.hist)]

\* C15: between a failed attempt and the next attempt exactly one recovery
\* path is taken: when the error text has the stale-helper-package signature
\* and the package cleanup was performed, the next attempt follows with no
\* restart of the helper service; otherwise the service is restarted once.
\* So a stale-signature failure on attempt 1 that was cleaned up, followed by
\* success on attempt 2, returns a session with zero restarts.
C15_OneRecoveryPath ==
    /\ \A i \in Retried :
         LET a == mob.hist[i]
             cleanedUp == StaleSignature(a.text) /\ a.cleaned
         IN /\ a.out # "created"
            /\ a.cleaned => StaleSignature(a.text)
            /\ a.restarted = IF cleanedUp THEN 0 ELSE 1
    /\ mob.restarts = RestartsMade
    /\ ( /\ mob.pc = "returned" /\ Len(mob.hist) = 2
         /\ StaleSignature(mob.hist[1].text) /\ mob.hist[1].cleaned
         /\ mob.hist[2].out = "created" ) => mob.restarts = 0

\* attempt 1 failed with "HTTP 404", the helper packages were removed, attempt
\* 2 gave the session that was returned, and nothing was restarted
C15_Witness ==
    /\ mob.pc = "returned" /\ Len(mob.hist) = 2
    /\ mob.hist[1].text = <<"HTTP", "404">> /\ mob.hist[1].cleaned
    /\ mob.hist[2].out = "created"
    /\ mob.driver = 2
    /\ mob.restarts = 0

(***************************************************************************)
(* Properties of BrowserFactory.create_driver and of the wrapped drivers.  *)
(***************************************************************************)
\* the names that read chrome or firefox, in any case
SupportedNames == {"chrome", "Chrome", "firefox", "Firefox"}

\* the name a create_driver call has to go by: the platform of the thread
\* context when it is set, the configured browser otherwise, chrome when
\* nothing is configured
RequestedBrowser(call) ==
    IF call.platform \notin {Unset, None, ""} THEN call.platform
    ELSE IF call.cfg = Unset THEN "chrome" ELSE call.cfg

ListOnceCreated ==
    /\ \A d \in drivers : ~screenshots[d.owner].none
    /\ shot.result = "ok" =>
         /\ ~screenshots[shot.t].none
         /\ screenshots[shot.t].items # <<>>
    /\ bcall.result = "driver" =>
         /\ bcall.kept
         /\ bcall.hadList => bcall.unchanged
    /\ mob.pc = "returned" => mob.kept

\* In any thread, get_context("screenshots") is None until a driver factory
\* first runs in that thread; after a successful create_driver it is a list,
\* and after a captured screenshot it is still a non-None list; a
\* create_driver in a thread whose list exists keeps the existing entries.
C17_NoneUntilFactoryRuns ==
    /\ \A t \in Threads : t \notin factoryRan => screenshots[t].none
    /\ ListOnceCreated

\* C17: in any thread, get_context("screenshots") is None until a driver
\* factory first runs in that thread or a wrapped screenshot call is made in
\* that thread; after a successful create_driver (browser or mobile) it is a
\* list, and after any screenshot captured through the wrapped driver in that
\* thread it is still a non-None list. A create_driver in a thread whose list
\* already exists keeps the existing entries.
C17_NoneUntilFactoryOrWrapperRuns ==
    /\ \A t \in Threads :
         t \notin factoryRan /\ t \notin shotIn => screenshots[t].none
    /\ ListOnceCreated

\* thread Main, in which no factory ever ran, holds a list of screenshots
\* taken through a driver of thread 1, and thread 1 created a mobile driver
\* when its list held entries, which are still there
C17_Witness ==
    /\ Main \notin factoryRan /\ Main \in shotIn
    /\ screenshots[Main].items # <<>>
    /\ mob.pc = "returned" /\ mob.t = 1
    /\ mob.hadList /\ mob.kept
    /\ screenshots[1].items # <<>>

\* C18: the thread's screenshot list is append-only and holds a path only
\* for a screenshot that succeeded: after any wrapped screenshot call
\* (browser save_screenshot or mobile get_screenshot_as_file) each earlier
\* entry is still present in the same position, and no entry exists for a
\* call whose underlying capture raised.
C18_AppendOnlySuccessOnly ==
    /\ shot.kind # "none" =>
         /\ shot.kept
         /\ shot.result = "raised" => shot.added = 0
         /\ shot.result = "ok" => shot.added = 1
    /\ \A t \in FThreads :
         \A i \in DOMAIN screenshots[t].items : screenshots[t].items[i] \in files

\* the candidates of a relative name in the order they are tried
Candidate(dir, file, k) ==
    IF k = 0 THEN AbsolutePath(dir, file) ELSE AbsolutePath(dir, NumberedName(file, k))

\* C19: for a relative screenshot name, the browser wrapper resolves it
\* inside the report's screenshots directory (or ./screenshots when the
\* context has no report) and, on collision, tries name_1, name_2, ... in
\* order until it reaches a path that does not exist; successive captures of
\* the same relative name go to pairwise distinct paths and never overwrite
\* an existing file. An absolute path is used unchanged.
C19_RelativeNamesNeverCollide ==
    /\ shot.kind = "browser" /\ ~shot.input.abs =>
         LET dir == IF report[shot.t] THEN "/report/screenshots" ELSE "/cwd/screenshots"
         IN /\ shot.target.abs /\ shot.target.dir = dir
            /\ ~shot.existed
            /\ \E k \in 0..(Cardinality(files) + 1) :
                 /\ shot.target = Candidate(dir, shot.input.file, k)
                 /\ \A j \in 0..(k - 1) : Candidate(dir, shot.input.file, j) \in files
    /\ shot.kind = "browser" /\ shot.input.abs => shot.target = shot.input
    /\ \A path \in BagToSet(relWrites) : CopiesIn(path, relWrites) = 1

\* a capture of shot.png went to shot_2.png, shot.png and shot_1.png being
\* there already
C19_Witness ==
    /\ shot.kind = "browser" /\ shot.result = "ok"
    /\ shot.input = RelativePath(<<"shot", ".png">>)
    /\ shot.target.file = <<"shot", "_", "2", ".png">>
    /\ ~shot.existed
    /\ Cardinality(BagToSet(relWrites)) >= 2

\* C20: the mobile screenshot wrapper probes session liveness before
\* capturing, with one retry: the capture is attempted only after a probe
\* succeeded within two tries. If both probes fail or the capture raises, an
\* .error sidecar is written next to the target path, the error is re-raised
\* to the caller (also when writing the sidecar fails), and the thread's
\* screenshot list is left unchanged.
C20_ProbeBeforeCaptureSidecarOnFailure ==
    shot.kind = "mobile" =>
      LET probed == shot.probe1 \/ shot.probe2
          failed == ~probed \/ ~shot.captureOk
      IN /\ shot.attempted <=> probed
         /\ failed =>
              /\ shot.result = "raised"
              /\ shot.sidecar <=> shot.sidecarOk
              /\ shot.sidecar => shot.target \in sidecars
              /\ shot.unchanged /\ shot.added = 0
         /\ ~failed =>
              /\ shot.result = "ok" /\ ~shot.sidecar
              /\ shot.added = 1

\* both probes failed in a thread whose list holds a screenshot: no capture,
\* the sidecar written, the error raised, the list as it was
C20_Witness ==
    /\ shot.kind = "mobile"
    /\ ~shot.probe1 /\ ~shot.probe2
    /\ ~shot.attempted
    /\ shot.result = "raised"
    /\ shot.sidecar /\ shot.target \in sidecars
    /\ shot.unchanged
    /\ screenshots[shot.t].items # <<>>

\* the attempts of the call so far whose failure had the helper packages
\* uninstalled
CleanupsPerformed == {k \in DOMAIN mob.hist : mob.hist[k].cleaned}

\* C24: within a single MobileFactory.create_driver call the cleanup of the
\* on-device helper packages is triggered at most once, however many attempts
\* fail with an error text matching the stale-package signature.
C24_CleanupAtMostOnce == Cardinality(CleanupsPerformed) <= 1

\* the argument tuple of a stage, for the suite a thread runs and the case at
\* position ci of its list
ExpectedArgs(suite, stage, ci) ==
    LET c == NormalCases(suite)[ci]
    IN CASE stage \in {"before_test_suite", "setup", "teardown", "after_test_suite"}
              -> <<[suite |-> suite]>>
         [] stage = "before_test_case" -> <<[case |-> c]>>
         [] stage = "setup_test_case"  -> <<[case |-> c], NoData>>
         [] stage \in {"after_test_case", "teardown_test_case"}
              -> <<[case |-> c], [status |-> ExpectedStatus(c), name |-> c]>>

\* C25: Runner._invoke_hook calls a hook that declares zero parameters with
\* no arguments, and any other hook with exactly the stage's argument tuple:
\* (suite_path) for before_test_suite, setup, teardown and after_test_suite;
\* (case) for before_test_case; (case, None) for setup_test_case; (case,
\* result record) for after_test_case and teardown_test_case.
C25_HookArgumentsByArity ==
    \A t \in Threads :
      (InRunSuite(th[t].pc) \/ Exited(th[t].pc)) /\ th[t].suite # None =>
        \A k \in DOMAIN runlog[t] :
          LET e == runlog[t][k] IN
            e.ev = "hook" =>
              e.args = IF e.hook \in ZeroArity THEN <<>>
                       ELSE ExpectedArgs(th[t].suite, e.stage, e.ci)

\* suite A ran a failing case to its end: the parameterless after_test_case
\* hook was called with nothing, the setup_test_case hook with (case, None),
\* the teardown_test_case hook with the case and its record, the setup hook
\* with the suite path
C25_Witness ==
    /\ th[Main].pc = "exit_ok"
    /\ th[Main].suite = "A"
    /\ suiteFile["A"].cases = <<<<"d", "\\", "f">>, <<"p">>>>
    /\ HookCalls(runlog[Main], "after_test_case", "g_atc0")[1].args = <<>>
    /\ HookCalls(runlog[Main], "setup_test_case", "a_stc")[1].args
         = <<[case |-> <<"d", "/", "f">>], NoData>>
    /\ HookCalls(runlog[Main], "teardown_test_case", "a_ttc")[1].args
         = <<[case |-> <<"d", "/", "f">>], [status |-> "failed", name |-> <<"d", "/", "f">>]>>
    /\ HookCalls(runlog[Main], "setup", "a_setup")[1].args = <<[suite |-> "A"]>>

\* the hooks of a stage a thread has called so far
StageFired(log, stage) == {log[k].hook : k \in {j \in DOMAIN log : log[j].ev = "hook" /\ log[j].stage = stage}}

\* C26: every run_suite call that has fired the before_test_suite and setup
\* hooks also fires the teardown and after_test_suite hooks before it returns
\* or raises, including when the suite file cannot be opened, is empty, or
\* holds a malformed case list.
C26_SuiteHooksPaired ==
    \A t \in Threads :
      /\ Exited(th[t].pc) /\ th[t].suite # None
      /\ StageFired(runlog[t], "before_test_suite") \cup StageFired(runlog[t], "setup") # {}
      => \A stage \in {"teardown", "after_test_suite"} :
           StageFired(runlog[t], stage) = Range(Registered(th[t].suite, stage))

\* C27: when two suites of a parallel collection run at the same time, the
\* hooks fired during suite A's run are the global hooks and A's own
\* suite-local hooks only: a load_suite_listeners call made by suite B on
\* another thread never changes which hooks A fires for its remaining stages.
C27_ParallelSuitesKeepOwnHooks ==
    \A t \in Workers :
      (InRunSuite(th[t].pc) \/ Exited(th[t].pc)) /\ th[t].suite # None =>
        \A k \in DOMAIN runlog[t] :
          runlog[t][k].ev = "hook" =>
            runlog[t][k].hook \in Range(Registered(th[t].suite, runlog[t][k].stage))

\* the device name a session asked for during an entry must carry
EntryDeviceName(e) == IF EntryDevice(e) = None THEN deviceName ELSE EntryDevice(e)

\* C30: a mobile session created by MobileFactory.create_driver during the run
\* of a collection entry that has a device_id is requested with that device_id
\* as its device name, and with the configured device name only when the
\* entry has no device_id.
C30_EntryDeviceReachesDriver ==
    ~NoCreateInProgress /\ InRunSuite(th[mob.t].pc) =>
      mob.device_name = EntryDeviceName(EntryOf(mob.t))

\* the environment variables whose name is the key in another letter-casing,
\* no second casing of the name being set
OtherCasings(env, key) ==
    {n \in Keys(env) : /\ n # key
                        /\ Lower(n) = Lower(key)
                        /\ \A o \in Keys(env) : Lower(o) = Lower(n) => o = n}

\* C23: Config.get is case-insensitive for environment variables: for an
\* environment variable stored under any letter-casing (upper, lower or
\* mixed), get called with any other casing of the same name returns that
\* variable's value.
C23_EnvLookupIgnoresCase ==
    cfgCall # NoConfigCall =>
      \A n \in OtherCasings(environ, cfgCall.key) : cfgCall.result = Lookup(environ, n)

(***************************************************************************)
(* Properties of the Mobile keyword layer.                                 *)
(***************************************************************************)
\* a thread between taking and leaving Mobile._lock
InCritical(t) ==
    \/ kw[t].pc \in {"recheck", "create", "body", "finally", "release"}
    \/ kw[t].nested /\ kw[t].pc \in {"check", "lock", "return"}

\* a call that is over and gave a value
Returned(t) == kw[t].pc = "idle" /\ kw[t].ret \notin {NotReturned, Raised}

\* creation, assignment and teardown are never under way in two threads
LifecycleSerialised == Cardinality({t \in FThreads : InCritical(t)}) <= 1

\* the _get_driver calls that returned all gave the session that was created
SameDriverForAll ==
    \A t \in FThreads :
      kw[t].op = "_get_driver" /\ Returned(t) => kw[t].ret = created /\ created = 1

\* under any interleaving of threads calling Mobile._get_driver while no
\* driver exists, MobileFactory.create_driver is invoked exactly once and
\* every caller ends up using that one driver; creation, use_driver
\* assignment and reset_driver/quit teardown never run at the same time in
\* two threads.
C21_CreateDriverInvokedOnce ==
    /\ LifecycleSerialised
    /\ onlyGets => creates <= 1 /\ SameDriverForAll

\* C21: under any interleaving of threads calling Mobile._get_driver while no
\* driver exists, MobileFactory.create_driver is never running in two threads
\* at once and is invoked again only after an invocation that raised: once it
\* has returned a driver it is not invoked again, and every caller that
\* returns uses that one driver; creation, use_driver assignment and
\* reset_driver/quit teardown never run at the same time in two threads.
C21_CreateDriverReturnsOnce ==
    /\ LifecycleSerialised
    /\ onlyGets => /\ created <= 1
                    /\ creates <= raisedCreates + 1
                    /\ SameDriverForAll

\* both threads called _get_driver while there was no driver, one waited for
\* the lock while the other created the session, and both got that session
C21_Witness ==
    /\ onlyGets /\ ncalls = 2 /\ creates = 1
    /\ \A t \in FThreads :
         kw[t].op = "_get_driver" /\ kw[t].saw_none /\ Returned(t) /\ kw[t].ret = 1

\* C22: after Mobile.reset_driver or Mobile.quit returns the shared slot is
\* empty, also when quitting the old session raised, and the next
\* Mobile._get_driver creates a fresh session instead of returning the one
\* that was quit.
C22_NoReuseAcrossReset ==
    \A t \in FThreads :
      /\ kw[t].op \in {"reset_driver", "quit"} /\ Returned(t) => kw[t].slot_after = 0
      /\ kw[t].op = "_get_driver" /\ Returned(t) /\ kw[t].ret # 0 => kw[t].ret \notin kw[t].stale

\* session 1 was created, reset_driver quit it with an error from quit(), and
\* the _get_driver call made afterwards returned the new session 2
C22_Witness ==
    /\ kw[1].op = "reset_driver" /\ Returned(1) /\ kw[1].quitRaised /\ kw[1].arg = 1
    /\ kw[Main].op = "_get_driver" /\ Returned(Main)
    /\ kw[Main].stale = {1} /\ kw[Main].ret = 2

\* C28: Mobile._get_driver never returns None: under any interleaving with
\* Mobile.reset_driver, Mobile.quit or Mobile.use_driver running on other
\* threads, every call that returns yields a driver session.
C28_GetDriverNeverNone ==
    \A t \in FThreads : kw[t].op = "_get_driver" /\ Returned(t) => kw[t].ret # 0

\* C29: Mobile.sync_with_context always terminates: for a behave context with
\* or without a driver, and whether or not the shared driver already exists,
\* the call returns a driver and releases the class lock (no thread blocks
\* forever on the lock).
C29_SyncWithContextTerminates ==
    \A t \in FThreads :
      (kw[t].op = "sync_with_context" /\ kw[t].pc # "idle")
        ~> (Returned(t) /\ kw[t].ret # 0 /\ cls_lock # t)
====
